---- MODULE Spec2Model ----
(***************************************************************************)
(* Meteomatics data-update coordinator (custom_components/meteomatics).    *)
(*                                                                         *)
(* Time is counted in minutes.  A datetime is the instant it denotes (UTC  *)
(* minutes); wall-clock fields are obtained through ToLocal/FromLocal.     *)
(* An optional value (Python None or a value) is the empty sequence or a   *)
(* one-element sequence.                                                   *)
(***************************************************************************)
EXTENDS Integers, Sequences, FiniteSets, TLC

None == <<>>
Some(x) == <<x>>
Val(o) == o[1]

Abs(x) == IF x < 0 THEN 0 - x ELSE x

(***************************************************************************)
(* Bounds of the model.                                                    *)
(***************************************************************************)
\* number of 30-minute steps the clock takes between refresh cycles
MaxTicks == 2
\* number of one-minute steps the clock takes while a request is in flight
MaxDrift == 1
\* length of the longest parameter list handed to _chunk_parameters
MaxParameters == 21
\* the greatest weather symbol code looked up (the least is -1)
MaxCode == 200
\* length of the longest series handed to a helper that reads one series
MaxSamples == 3
\* number of items of the longest "data" list handed to _parse_response
MaxItems == 2

\* step of the clock between cycles, in minutes
TickSteps == {30}
\* instants (UTC minutes) at which the coordinator is constructed:
\* 14:30 and 20:30 local time on day 1
StartTimes == {1440 + 12 * 60 + 30, 1440 + 18 * 60 + 30}

(***************************************************************************)
(* const.py                                                                *)
(***************************************************************************)
HOURLY_HOURS == 24
DAILY_DAYS == 9
MAX_PARAMETERS_PER_REQUEST == 10

HOURLY_PARAMETERS ==
  << "t_2m:C", "msl_pressure:hPa", "wind_speed_10m:ms", "wind_dir_10m:d",
     "wind_gusts_10m_1h:ms", "uv:idx", "weather_symbol_1h:idx",
     "precip_1h:mm", "precip_24h:mm" >>

DAILY_PARAMETERS ==
  << "t_max_2m_24h:C", "t_min_2m_24h:C", "wind_gusts_10m_24h:ms",
     "sunrise:sql", "sunset:sql", "wind_speed_10m:ms", "wind_dir_10m:d",
     "uv:idx", "precip_24h:mm", "weather_symbol_24h:idx" >>

BASIC_DAILY_FETCH_HOURS == <<3, 9, 15, 21>>

\* _BASE_WEATHER_SYMBOL_MAP: the condition of a code in 0..99
BaseWeatherSymbol(c) ==
  CASE c \in {0, 1} -> "sunny"
    [] c = 2 -> "partlycloudy"
    [] c \in {3, 4} -> "cloudy"
    [] c = 5 -> "fog"
    [] c \in 6..9 -> "exceptional"
    [] c \in 10..12 -> "fog"
    [] c = 13 -> "lightning"
    [] c \in 14..19 -> "partlycloudy"
    [] c \in {20, 21} -> "rainy"
    [] c = 22 -> "snowy"
    [] c = 23 -> "snowy-rainy"
    [] c \in {24, 25} -> "rainy"
    [] c = 26 -> "snowy"
    [] c \in {27, 28} -> "hail"
    [] c = 29 -> "lightning"
    [] c \in 30..36 -> "windy"
    [] c \in 37..39 -> "snowy"
    [] c \in 40..49 -> "fog"
    [] c \in 50..55 -> "rainy"
    [] c \in 56..59 -> "snowy-rainy"
    [] c \in 60..63 -> "rainy"
    [] c \in {64, 65} -> "pouring"
    [] c \in 66..69 -> "snowy-rainy"
    [] c \in 70..78 -> "snowy"
    [] c = 79 -> "snowy-rainy"
    [] c \in {80, 81} -> "rainy"
    [] c = 82 -> "pouring"
    [] c \in {83, 84} -> "snowy-rainy"
    [] c \in {85, 86} -> "snowy"
    [] c \in 87..90 -> "hail"
    [] c = 91 -> "rainy"
    [] c = 92 -> "pouring"
    [] c \in {93, 94} -> "snowy-rainy"
    [] c \in 95..99 -> "lightning-rainy"

\* an empty _NIGHT_CONDITION_MAP: the night variant is the day condition
SameCondition(condition) == condition

\* _NIGHT_CONDITION_MAP.get(condition, condition)
NightCondition(condition) ==
  IF condition = "sunny" THEN "clear-night" ELSE condition

\* WEATHER_SYMBOL_MAP.get(code): None for a code the table does not have
WeatherSymbolMapGet(code) ==
  IF code \in 0..99 THEN Some(BaseWeatherSymbol(code))
  ELSE IF code \in 100..199 THEN Some(NightCondition(BaseWeatherSymbol(code - 100)))
  ELSE None

(***************************************************************************)
(* Time                                                                    *)
(***************************************************************************)
DAY == 1440
HOUR == 60

\* hass.config.time_zone: the offset of local time from UTC, in minutes
TimeZoneOffset == 120

ToLocal(t) == t + TimeZoneOffset
FromLocal(w) == w - TimeZoneOffset

\* the calendar day of an instant in UTC (dt.date() without astimezone)
UtcDay(t) == t \div DAY

\* the local calendar day of an instant (dt.astimezone(tz).date())
LocalDay(t) == ToLocal(t) \div DAY

\* value.replace(hour=h) without minute=0: the minute of the value is kept
ReplaceHourKeepMinute(t, h) ==
  FromLocal(LocalDay(t) * DAY + h * HOUR + (ToLocal(t) % HOUR))

\* value.replace(hour=h, minute=0, second=0, microsecond=0) on a local datetime
ReplaceHour(t, h) == FromLocal(LocalDay(t) * DAY + h * HOUR)

\* value.replace(minute=0, second=0, microsecond=0) on a local datetime
TruncateToHour(t) == FromLocal((ToLocal(t) \div HOUR) * HOUR)

\* timedelta(hours=1) of _handle_rate_limit
RateLimitCooldown == 60

(***************************************************************************)
(* Parsed responses.  A parsed response maps a parameter name to its list  *)
(* of samples; a sample is [date, value]: date is the ISO string of the    *)
(* response (IsoDate(t) for the instant t, BadDate for a string that       *)
(* datetime.fromisoformat rejects or an absent one), value is a JSON       *)
(* value: null is None, the number n is Some(n), a string that is not a    *)
(* number is Text(s).                                                      *)
(***************************************************************************)
Text(s) == <<"str", s>>

\* float(value) and int(value) succeed: the value is a number
Numeric(value) == Len(value) = 1

IsoDate(t) == [iso |-> TRUE, t |-> t]
BadDate == [iso |-> FALSE, t |-> 0]
Sample(t, v) == [date |-> IsoDate(t), value |-> v]

\* _parse_time
ParseTime(value) == IF value.iso THEN Some(value.t) ELSE None

\* parsed.get(parameter, {}).get("dates", [])
Dates(parsed, parameter) ==
  IF parameter \in DOMAIN parsed THEN parsed[parameter] ELSE <<>>

\* the least element of a non-empty set of integers
Least(S) == CHOOSE x \in S : \A y \in S : x <= y
\* the greatest element of a non-empty set of integers
Greatest(S) == CHOOSE x \in S : \A y \in S : x >= y

\* _value_at comparing with dt >= target
ValueAtOrLater(parsed, parameter, target) ==
  LET dates == Dates(parsed, parameter)
      hits == {i \in 1..Len(dates) : /\ ParseTime(dates[i].date) # None
                                     /\ Val(ParseTime(dates[i].date)) >= target}
  IN  IF hits = {} THEN None ELSE dates[Least(hits)].value

\* _value_at: the value of the first sample whose timestamp is the target
ValueAt(parsed, parameter, target) ==
  LET dates == Dates(parsed, parameter)
      hits == {i \in 1..Len(dates) : ParseTime(dates[i].date) = Some(target)}
  IN  IF hits = {} THEN None ELSE dates[Least(hits)].value

\* int(value or 0)
IntOrZero(value) == IF value = None THEN 0 ELSE Val(value)

\* _extract_hourly_symbol_entries: (dt, symbol) of every sample of
\* weather_symbol_1h:idx with a parseable date
ExtractHourlySymbolEntries(parsed) ==
  LET items == SelectSeq(Dates(parsed, "weather_symbol_1h:idx"),
                         LAMBDA item : ParseTime(item.date) # None)
  IN  [i \in 1..Len(items) |->
         [dt |-> Val(ParseTime(items[i].date)),
          symbol |-> IF Numeric(items[i].value)
                     THEN WeatherSymbolMapGet(Val(items[i].value))
                     ELSE None]]

\* _infer_daily_condition comparing with distance <= best_distance: the
\* last of the entries at the least distance wins
InferDailyConditionLast(entries, day_start) ==
  LET day_end == day_start + DAY
      midday == day_start + 12 * HOUR
      inDay == {i \in 1..Len(entries) :
                  /\ entries[i].symbol # None
                  /\ day_start <= entries[i].dt
                  /\ entries[i].dt < day_end}
      dist(i) == Abs(entries[i].dt - midday)
      best == {i \in inDay : \A j \in inDay : dist(i) <= dist(j)}
  IN  IF inDay = {} THEN None ELSE entries[Greatest(best)].symbol

\* _infer_daily_condition: the symbol of the first entry, among those with a
\* symbol in [day_start, day_start + 1 day), at the least distance from midday
InferDailyCondition(entries, day_start) ==
  LET day_end == day_start + DAY
      midday == day_start + 12 * HOUR
      inDay == {i \in 1..Len(entries) :
                  /\ entries[i].symbol # None
                  /\ day_start <= entries[i].dt
                  /\ entries[i].dt < day_end}
      dist(i) == Abs(entries[i].dt - midday)
      best == {i \in inDay : \A j \in inDay : dist(i) <= dist(j)}
  IN  IF inDay = {} THEN None ELSE entries[Least(best)].symbol

\* _derive_daily_temperatures: local day -> <<max, min>> of the numeric
\* t_2m:C samples of the retained hourly series
DeriveDailyTemperatures(latest) ==
  LET items == SelectSeq(Dates(latest, "t_2m:C"),
                         LAMBDA item : ParseTime(item.date) # None /\ Numeric(item.value))
      dayOf(i) == LocalDay(Val(ParseTime(items[i].date)))
      days == {dayOf(i) : i \in 1..Len(items)}
      temps(d) == {Val(items[i].value) : i \in {j \in 1..Len(items) : dayOf(j) = d}}
  IN  [d \in days |-> <<Greatest(temps(d)), Least(temps(d))>>]

\* the samples of a list whose date parses
Dated(dates) == SelectSeq(dates, LAMBDA item : ParseTime(item.date) # None)

\* _hourly_value_near keeping the sample farthest from the target
HourlyValueNearReversed(latest, parameter, target) ==
  LET items == Dated(Dates(latest, parameter))
      dist(i) == Abs(Val(ParseTime(items[i].date)) - target)
      best == {i \in 1..Len(items) : \A j \in 1..Len(items) : dist(i) >= dist(j)}
  IN  IF Len(items) = 0 THEN None ELSE items[Least(best)].value

\* _hourly_value_near comparing with distance <= best_distance: the last of
\* the samples at the least distance wins
HourlyValueNearLast(latest, parameter, target) ==
  LET items == Dated(Dates(latest, parameter))
      dist(i) == Abs(Val(ParseTime(items[i].date)) - target)
      best == {i \in 1..Len(items) : \A j \in 1..Len(items) : dist(i) <= dist(j)}
  IN  IF Len(items) = 0 THEN None ELSE items[Greatest(best)].value

\* _hourly_value_near: the value of the first sample of the retained hourly
\* series, among those with a parseable date, at the least distance from the
\* target
HourlyValueNear(latest, parameter, target) ==
  LET items == Dated(Dates(latest, parameter))
      dist(i) == Abs(Val(ParseTime(items[i].date)) - target)
      best == {i \in 1..Len(items) : \A j \in 1..Len(items) : dist(i) <= dist(j)}
  IN  IF Len(items) = 0 THEN None ELSE items[Least(best)].value

\* total += float(value) over a list of samples with numeric values
RECURSIVE Total(_)
Total(items) ==
  IF Len(items) = 0 THEN 0 ELSE Val(Head(items).value) + Total(Tail(items))

\* _sum_hourly_values counting a sample at the end of the window
SumHourlyValuesInclusive(latest, parameter, start, end) ==
  LET counted == SelectSeq(Dated(Dates(latest, parameter)),
                           LAMBDA item : /\ Val(ParseTime(item.date)) >= start
                                         /\ Val(ParseTime(item.date)) <= end
                                         /\ Numeric(item.value))
  IN  IF Len(counted) = 0 THEN None ELSE Some(Total(counted))

\* _sum_hourly_values: the total of the numeric values of the samples of the
\* retained hourly series dated in [start, end), None when there is none
SumHourlyValues(latest, parameter, start, end) ==
  LET counted == SelectSeq(Dated(Dates(latest, parameter)),
                           LAMBDA item : /\ Val(ParseTime(item.date)) >= start
                                         /\ Val(ParseTime(item.date)) < end
                                         /\ Numeric(item.value))
  IN  IF Len(counted) = 0 THEN None ELSE Some(Total(counted))

\* value = self._value_at(parsed, parameter, dt); if value is None: value = other
OrElse(value, other) == IF value = None THEN other ELSE value

\* the loop body of _update_cached_daily_conditions leaving the entry as it is
KeepCachedEntry(entry, entries, derived) == entry

\* the body of the loop of _update_cached_daily_conditions for one entry
UpdateCachedEntry(entry, entries, derived) ==
  LET local_day == LocalDay(entry.datetime)
      inferred == [entry EXCEPT !.condition = InferDailyCondition(entries, entry.datetime)]
  IN  IF local_day \in DOMAIN derived
      THEN [inferred EXCEPT !.temperature = Some(derived[local_day][1]),
                            !.templow = Some(derived[local_day][2])]
      ELSE inferred

\* _update_cached_daily_conditions: the cached entries after the in-place update
UpdateCachedDailyConditions(daily, entries, latest) ==
  LET derived == DeriveDailyTemperatures(latest)
  IN  [i \in 1..Len(daily) |-> UpdateCachedEntry(daily[i], entries, derived)]

\* _daily_condition
DailyCondition(parsed, day_start, entries) ==
  LET raw_symbol == ValueAt(parsed, "weather_symbol_24h:idx", day_start)
  IN  IF Numeric(raw_symbol) /\ WeatherSymbolMapGet(Val(raw_symbol)) # None
      THEN WeatherSymbolMapGet(Val(raw_symbol))
      ELSE InferDailyCondition(entries, day_start)

\* _build_daily_forecast: one entry per sample of t_max_2m_24h:C with a
\* parseable date
BuildDailyForecast(parsed, entries, latest) ==
  LET derived == DeriveDailyTemperatures(latest)
      items == SelectSeq(Dates(parsed, "t_max_2m_24h:C"),
                         LAMBDA item : ParseTime(item.date) # None)
      build(item) ==
        LET dt == Val(ParseTime(item.date))
            local_day == LocalDay(dt)
        IN  [datetime |-> dt,
             temperature |-> IF local_day \in DOMAIN derived
                             THEN Some(derived[local_day][1])
                             ELSE item.value,
             templow |-> IF local_day \in DOMAIN derived
                         THEN Some(derived[local_day][2])
                         ELSE ValueAt(parsed, "t_min_2m_24h:C", dt),
             condition |-> DailyCondition(parsed, dt, entries),
             precipitation |->
               OrElse(ValueAt(parsed, "precip_24h:mm", dt),
                      SumHourlyValues(latest, "precip_1h:mm", dt, dt + DAY)),
             wind_speed |->
               OrElse(ValueAt(parsed, "wind_speed_10m:ms", dt),
                      HourlyValueNear(latest, "wind_speed_10m:ms", dt + 12 * HOUR)),
             wind_bearing |->
               OrElse(ValueAt(parsed, "wind_dir_10m:d", dt),
                      HourlyValueNear(latest, "wind_dir_10m:d", dt + 12 * HOUR)),
             wind_gust |-> ValueAt(parsed, "wind_gusts_10m_24h:ms", dt),
             pressure |->
               OrElse(ValueAt(parsed, "msl_pressure:hPa", dt),
                      HourlyValueNear(latest, "msl_pressure:hPa", dt + 12 * HOUR)),
             uv_index |->
               OrElse(ValueAt(parsed, "uv:idx", dt),
                      HourlyValueNear(latest, "uv:idx", dt + 12 * HOUR)),
             sunrise |-> ValueAt(parsed, "sunrise:sql", dt),
             sunset |-> ValueAt(parsed, "sunset:sql", dt)]
  IN  [i \in 1..Len(items) |-> build(items[i])]

\* _build_current
BuildCurrent(parsed, now_hour) ==
  [temperature |-> ValueAt(parsed, "t_2m:C", now_hour),
   pressure |-> ValueAt(parsed, "msl_pressure:hPa", now_hour),
   condition |-> WeatherSymbolMapGet(
                   IntOrZero(ValueAt(parsed, "weather_symbol_1h:idx", now_hour)))]

\* _build_hourly_forecast
BuildHourlyForecast(parsed) ==
  LET items == SelectSeq(Dates(parsed, "t_2m:C"),
                         LAMBDA item : ParseTime(item.date) # None)
      build(item) ==
        LET dt == Val(ParseTime(item.date))
        IN  [datetime |-> dt,
             temperature |-> item.value,
             condition |-> WeatherSymbolMapGet(
                             IntOrZero(ValueAt(parsed, "weather_symbol_1h:idx", dt)))]
  IN  [i \in 1..Len(items) |-> build(items[i])]

\* _chunk_parameters without the yield after the loop: a last group shorter
\* than MAX_PARAMETERS_PER_REQUEST is lost
RECURSIVE ChunkParametersFull(_)
ChunkParametersFull(parameters) ==
  IF Len(parameters) < MAX_PARAMETERS_PER_REQUEST THEN <<>>
  ELSE <<SubSeq(parameters, 1, MAX_PARAMETERS_PER_REQUEST)>>
       \o ChunkParametersFull(SubSeq(parameters, MAX_PARAMETERS_PER_REQUEST + 1,
                                     Len(parameters)))

\* _chunk_parameters: consecutive groups of MAX_PARAMETERS_PER_REQUEST
\* parameters, the rest in a last shorter group
RECURSIVE ChunkParameters(_)
ChunkParameters(parameters) ==
  IF Len(parameters) = 0 THEN <<>>
  ELSE IF Len(parameters) <= MAX_PARAMETERS_PER_REQUEST THEN <<parameters>>
  ELSE <<SubSeq(parameters, 1, MAX_PARAMETERS_PER_REQUEST)>>
       \o ChunkParameters(SubSeq(parameters, MAX_PARAMETERS_PER_REQUEST + 1,
                                 Len(parameters)))

\* _calculate_next_daily_fetch accepting a candidate equal to the reference
CalculateNextDailyFetchInclusive(reference, fetch_hours) ==
  LET hours == SortSeq(fetch_hours, LAMBDA a, b : a < b)
      later == {i \in 1..Len(hours) : ReplaceHour(reference, hours[i]) >= reference}
  IN  IF later # {} THEN ReplaceHour(reference, hours[Least(later)])
      ELSE ReplaceHour(reference + DAY, hours[1])

\* _calculate_next_daily_fetch returning the last candidate of the day that
\* is later than the reference
CalculateNextDailyFetchLast(reference, fetch_hours) ==
  LET hours == SortSeq(fetch_hours, LAMBDA a, b : a < b)
      later == {i \in 1..Len(hours) : ReplaceHour(reference, hours[i]) > reference}
  IN  IF later # {} THEN ReplaceHour(reference, hours[Greatest(later)])
      ELSE ReplaceHour(reference + DAY, hours[1])

\* _calculate_next_daily_fetch: the first hour of the sorted fetch hours whose
\* occurrence on the reference's local date is later than the reference, else
\* the first hour on the following local date
CalculateNextDailyFetch(reference, fetch_hours) ==
  LET hours == SortSeq(fetch_hours, LAMBDA a, b : a < b)
      later == {i \in 1..Len(hours) : ReplaceHour(reference, hours[i]) > reference}
  IN  IF later # {} THEN ReplaceHour(reference, hours[Least(later)])
      ELSE ReplaceHour(reference + DAY, hours[1])

\* _ensure_daily_data fetching only after the boundary has passed
DailyFetchDueStrict(fetch_hours, daily, next_fetch, now_local) ==
  \/ fetch_hours = None
  \/ daily = <<>>
  \/ next_fetch = None
  \/ now_local > Val(next_fetch)

\* _ensure_daily_data without the test of an empty cached list
DailyFetchDueBySchedule(fetch_hours, daily, next_fetch, now_local) ==
  \/ fetch_hours = None
  \/ next_fetch = None
  \/ now_local >= Val(next_fetch)

\* _ensure_daily_data: whether the daily leg sends a request
DailyFetchDue(fetch_hours, daily, next_fetch, now_local) ==
  \/ fetch_hours = None
  \/ daily = <<>>
  \/ next_fetch = None
  \/ now_local >= Val(next_fetch)

\* update_credentials taking the pair for unchanged when either part is
UpdateCredentialsEither(self, new_username, new_password) ==
  IF new_username = self.username \/ new_password = self.password
  THEN [changed |-> FALSE, username |-> self.username, password |-> self.password,
        rate_limit_reset |-> self.rate_limit_reset]
  ELSE [changed |-> TRUE, username |-> new_username, password |-> new_password,
        rate_limit_reset |-> None]

\* update_credentials: the return value and the fields after the call
UpdateCredentials(self, new_username, new_password) ==
  IF new_username = self.username /\ new_password = self.password
  THEN [changed |-> FALSE, username |-> self.username, password |-> self.password,
        rate_limit_reset |-> self.rate_limit_reset]
  ELSE [changed |-> TRUE, username |-> new_username, password |-> new_password,
        rate_limit_reset |-> None]

(***************************************************************************)
(* Responses of the upstream API.  A body is the "data" list of the JSON   *)
(* document: items [parameter, coordinates], each coordinate group a       *)
(* record [dates].                                                         *)
(***************************************************************************)
Item(name, samples) == [parameter |-> name, coordinates |-> << [dates |-> samples] >>]

\* _parse_response reading coordinates[-1], the last coordinate group
ParseResponseLastGroup(body) ==
  LET valid == {i \in 1..Len(body) :
                  body[i].parameter # "" /\ body[i].coordinates # <<>>}
      names == {body[i].parameter : i \in valid}
      last(n) == Greatest({i \in valid : body[i].parameter = n})
  IN  [n \in names |->
         body[last(n)].coordinates[Len(body[last(n)].coordinates)].dates]

\* data.get("data", []) of a JSON document: None is a document without the
\* "data" key
DataOf(document) == IF document = None THEN <<>> ELSE Val(document)

\* _parse_response: parameter name -> dates of the first coordinate group;
\* items without a name or without coordinates are skipped, a later item of
\* the same name replaces an earlier one
ParseResponse(body) ==
  LET valid == {i \in 1..Len(body) :
                  body[i].parameter # "" /\ body[i].coordinates # <<>>}
      names == {body[i].parameter : i \in valid}
      last(n) == Greatest({i \in valid : body[i].parameter = n})
  IN  [n \in names |-> body[last(n)].coordinates[1].dates]

\* combined[key] = value for every key of parsed (_fetch_parameters)
Merge(combined, parsed) ==
  [k \in (DOMAIN combined) \cup (DOMAIN parsed) |->
     IF k \in DOMAIN parsed THEN parsed[k] ELSE combined[k]]

\* bodies the API answers an hourly request starting at the hour h with
HourlyBodies(h) ==
  { << Item("t_2m:C", << Sample(h, Some(10)) >>),
       Item("weather_symbol_1h:idx", << Sample(h, Some(61)) >>) >>,
    << Item("t_2m:C", << Sample(h, Some(20)) >>),
       Item("weather_symbol_1h:idx", << Sample(h, None) >>) >> }

\* bodies the API answers a daily request starting at the day start d with
DailyBodies(d) ==
  { <<>>,
    << Item("t_max_2m_24h:C", << Sample(d, Some(25)) >>),
       Item("t_min_2m_24h:C", << Sample(d, Some(5)) >>),
       Item("weather_symbol_24h:idx", << Sample(d, Some(3)) >>) >>,
    << Item("t_max_2m_24h:C", << Sample(d + DAY, Some(25)) >>),
       Item("t_min_2m_24h:C", << Sample(d + DAY, Some(5)) >>) >> }

\* HTTP statuses of a response; 0 stands for no response (timeout or
\* connection failure)
Statuses == {200, 429, 500, 0}

(***************************************************************************)
(* Configuration entries the host hands to the integration.                *)
(***************************************************************************)
Entry(u, p, i, t, o) ==
  [username |-> u, password |-> p, update_interval |-> i, plan_type |-> t,
   basic_optional_parameters |-> o]

\* BASIC_OPTIONAL_PARAMETER_SCOPES, which config_flow.py imports from const.py:
\* the catalogue of optional parameters of the Basic tier with the forecast
\* scopes each applies to
BASIC_OPTIONAL_PARAMETER_SCOPES ==
  [p \in {"dew_point_2m:C", "snow_depth:cm", "uv:idx", "visibility:km",
          "wind_gusts_10m_1h:ms", "relative_humidity_2m:p", "fresh_snow_24h:cm"} |->
     CASE p \in {"dew_point_2m:C", "visibility:km", "relative_humidity_2m:p"} -> {"hourly"}
       [] p \in {"snow_depth:cm", "fresh_snow_24h:cm"} -> {"daily"}
       [] OTHER -> {"hourly", "daily"}]

\* BASIC_OPTIONAL_PARAMETER_LIMIT, which config_flow.py imports from const.py:
\* how many optional parameters a Basic entry may select
BASIC_OPTIONAL_PARAMETER_LIMIT == 5

InitialEntry == Entry("u1", "p1", 20, "paid_trial", <<>>)

Entries ==
  { InitialEntry,
    Entry("u1", "p2", 20, "paid_trial", <<>>),
    Entry("u1", "p1", 30, "paid_trial", <<>>),
    Entry("u1", "p1", 20, "basic", <<"dew_point_2m:C">>) }

(***************************************************************************)
(* config_flow.py: the setup screens (MeteomaticsConfigFlow) and the       *)
(* options screens (MeteomaticsOptionsFlow).  A step returns what the host *)
(* does next: it shows a form, creates the entry or aborts the flow.       *)
(***************************************************************************)
\* what the API answers the request of validate_input with: an HTTP status,
\* or nothing (the connection fails or the 30 s timeout expires)
Answered(status) == [kind |-> "status", status |-> status]
NoConnection == [kind |-> "connection_error", status |-> 0]
TimedOut == [kind |-> "timeout", status |-> 0]

\* validate_input: the exception it raises, None when it returns
ValidateInput(response) ==
  IF response.kind = "timeout" THEN Some([class |-> "TimeoutError", status |-> 0])
  ELSE IF response.kind = "connection_error"
  THEN Some([class |-> "ClientConnectionError", status |-> 0])
  ELSE IF response.status >= 400
  THEN Some([class |-> "ClientResponseError", status |-> response.status])
  ELSE None

\* the except clauses taking every exception for a failed connection
ValidationErrorCannotConnect(raised) == "cannot_connect"

\* the except clauses around validate_input: errors["base"]
ValidationError(raised) ==
  IF raised.class = "ClientResponseError"
  THEN IF raised.status = 401 THEN "invalid_auth" ELSE "cannot_connect"
  ELSE "cannot_connect"

\* what a step of a flow returns
FlowResult(type, step_id, errors, reason) ==
  [type |-> type, step_id |-> step_id, errors |-> errors, reason |-> reason]

\* MeteomaticsConfigFlow.async_step_user: the result, the data of the entry
\* created and _pending_user_input after the step; configured is whether the
\* unique id of the location belongs to an entry already
AsyncStepUser(pending_user_input, user_input, response, configured) ==
  LET raised == ValidateInput(response)
      form(errors) == [result |-> FlowResult("form", "user", errors, ""),
                       created |-> None, pending_user_input |-> pending_user_input]
  IN  IF user_input = None THEN form(None)
      ELSE IF raised # None THEN form(Some(ValidationError(Val(raised))))
      ELSE IF Val(user_input).plan_type = "basic"
      THEN [result |-> FlowResult("form", "basic_parameters", None, ""),
            created |-> None, pending_user_input |-> user_input]
      ELSE IF configured
      THEN [result |-> FlowResult("abort", "", None, "already_configured"),
            created |-> None, pending_user_input |-> pending_user_input]
      ELSE [result |-> FlowResult("create_entry", "", None, ""),
            created |-> Some(Entry(Val(user_input).username, Val(user_input).password,
                                   Val(user_input).update_interval,
                                   Val(user_input).plan_type, <<>>)),
            pending_user_input |-> pending_user_input]

\* MeteomaticsOptionsFlow.async_step_init: the result, the config entry and
\* _pending_new_data, _pending_options after the step
AsyncStepInit(config_entry, user_input, response) ==
  LET raised == ValidateInput(response)
      form(errors) == [result |-> FlowResult("form", "init", errors, ""),
                       config_entry |-> config_entry,
                       pending_new_data |-> None, pending_options |-> None]
  IN  IF user_input = None THEN form(None)
      ELSE IF raised # None THEN form(Some(ValidationError(Val(raised))))
      ELSE IF Val(user_input).plan_type = "basic"
      THEN [result |-> FlowResult("form", "basic_parameters", None, ""),
            config_entry |-> config_entry,
            pending_new_data |->
              Some(Entry(Val(user_input).username, Val(user_input).password,
                         config_entry.update_interval, "basic",
                         config_entry.basic_optional_parameters)),
            pending_options |-> Some(Val(user_input).update_interval)]
      ELSE [result |-> FlowResult("create_entry", "", None, ""),
            config_entry |-> Entry(Val(user_input).username, Val(user_input).password,
                                   Val(user_input).update_interval,
                                   Val(user_input).plan_type, <<>>),
            pending_new_data |-> None, pending_options |-> None]

\* the selection as submitted, parameters outside the catalogue included
ValidSelectionUnfiltered(selected) == selected

\* valid_selection of the async_step_basic_parameters steps: the selected
\* parameters that are in the catalogue, in the order selected
ValidSelection(selected) ==
  SelectSeq(selected, LAMBDA param : param \in DOMAIN BASIC_OPTIONAL_PARAMETER_SCOPES)

\* MeteomaticsConfigFlow.async_step_basic_parameters: the result, the data of
\* the entry created and _pending_user_input after the step.  user_input is
\* None or the list submitted under CONF_BASIC_OPTIONAL_PARAMETERS; the
\* pending input carries the selection stored in it (absent reads as [])
ConfigFlowBasicParameters(pending_user_input, user_input, configured) ==
  LET form(errors) == [result |-> FlowResult("form", "basic_parameters", errors, ""),
                       created |-> None, pending_user_input |-> pending_user_input]
  IN  IF pending_user_input = None
      THEN [result |-> FlowResult("abort", "", None, "unknown"),
            created |-> None, pending_user_input |-> None]
      ELSE IF user_input = None THEN form(None)
      ELSE LET valid_selection == ValidSelection(Val(user_input))
               stored == [Val(pending_user_input) EXCEPT
                            !.basic_optional_parameters = valid_selection]
           IN  IF Len(valid_selection) > BASIC_OPTIONAL_PARAMETER_LIMIT
               THEN form(Some("basic_too_many_parameters"))
               ELSE IF configured
               THEN [result |-> FlowResult("abort", "", None, "already_configured"),
                     created |-> None, pending_user_input |-> Some(stored)]
               ELSE [result |-> FlowResult("create_entry", "", None, ""),
                     created |-> Some(Entry(stored.username, stored.password,
                                            stored.update_interval, stored.plan_type,
                                            stored.basic_optional_parameters)),
                     pending_user_input |-> None]

\* MeteomaticsOptionsFlow.async_step_basic_parameters: the result, the config
\* entry and _pending_new_data, _pending_options after the step
OptionsFlowBasicParameters(config_entry, pending_new_data, pending_options, user_input) ==
  LET form(errors) == [result |-> FlowResult("form", "basic_parameters", errors, ""),
                       config_entry |-> config_entry,
                       pending_new_data |-> pending_new_data,
                       pending_options |-> pending_options]
  IN  IF pending_new_data = None \/ pending_options = None
      THEN [result |-> FlowResult("abort", "", None, "unknown"),
            config_entry |-> config_entry,
            pending_new_data |-> pending_new_data, pending_options |-> pending_options]
      ELSE IF user_input = None THEN form(None)
      ELSE LET valid_selection == ValidSelection(Val(user_input))
               new_data == Val(pending_new_data)
           IN  IF Len(valid_selection) > BASIC_OPTIONAL_PARAMETER_LIMIT
               THEN form(Some("basic_too_many_parameters"))
               ELSE [result |-> FlowResult("create_entry", "", None, ""),
                     config_entry |-> Entry(new_data.username, new_data.password,
                                            Val(pending_options), new_data.plan_type,
                                            valid_selection),
                     pending_new_data |-> None, pending_options |-> None]

(***************************************************************************)
(* State                                                                   *)
(***************************************************************************)
VARIABLES
  now,                   \* dt_util.utcnow()
  ticks,                 \* clock steps taken between cycles
  drift,                 \* clock steps taken while a request was in flight
  entry,                 \* the data and options of the config entry
  username,              \* _username
  password,              \* _password
  update_interval,       \* update_interval
  daily_fetch_hours,     \* _daily_fetch_hours
  rate_limit_reset,      \* _rate_limit_reset
  daily_data,            \* _daily_data
  next_daily_fetch,      \* _next_daily_fetch
  hourly_symbol_entries, \* _hourly_symbol_entries
  latest_hourly_parsed,  \* _latest_hourly_parsed
  data,                  \* the result of the last successful cycle (coordinator.data)
  outcome,               \* how the last finished cycle ended
  pc,                    \* "idle", or the leg whose request is in flight
  cycle,                 \* the locals of the cycle in progress
  request,               \* the HTTP request in flight
  requests,              \* HTTP requests issued by the current or last cycle
  credentials_changed,   \* what the last update_credentials call returned
  refresh_requested,     \* async_request_refresh was called and no cycle started since
  call                   \* a call of one helper on its own: its arguments and result

clock == <<now, ticks, drift>>
config == <<entry, username, password, update_interval, daily_fetch_hours>>
cache == <<daily_data, next_daily_fetch, hourly_symbol_entries, latest_hourly_parsed>>
running == <<pc, cycle, request>>
vars == <<now, ticks, drift, entry, username, password, update_interval,
          daily_fetch_hours, rate_limit_reset, daily_data, next_daily_fetch,
          hourly_symbol_entries, latest_hourly_parsed, data, outcome, pc, cycle,
          request, requests, credentials_changed, refresh_requested, call>>

\* the coordinator after __init__, registered by async_setup_entry
Constructed ==
  /\ now \in StartTimes
  /\ ticks = 0
  /\ drift = 0
  /\ entry = InitialEntry
  /\ username = InitialEntry.username
  /\ password = InitialEntry.password
  /\ update_interval = InitialEntry.update_interval
  /\ daily_fetch_hours = Some(BASIC_DAILY_FETCH_HOURS)
  /\ rate_limit_reset = None
  /\ daily_data = <<>>
  /\ next_daily_fetch = None
  /\ hourly_symbol_entries = <<>>
  /\ latest_hourly_parsed = <<>>
  /\ data = None
  /\ outcome = "none"
  /\ pc = "idle"
  /\ cycle = None
  /\ request = None
  /\ requests = 0
  /\ credentials_changed = FALSE
  /\ refresh_requested = FALSE

Init == Constructed /\ call = None

(***************************************************************************)
(* The refresh cycle (_async_update_data).  The host's update coordinator  *)
(* runs one cycle at a time; a cycle is suspended only while an HTTP       *)
(* request is in flight.                                                   *)
(***************************************************************************)
\* the cool-down check with the comparison the other way round
RateLimitedReversed == rate_limit_reset # None /\ now > Val(rate_limit_reset)
\* the cool-down check with the end of the cool-down included
RateLimitedInclusive == rate_limit_reset # None /\ now <= Val(rate_limit_reset)

\* the cool-down check of _async_update_data
RateLimited == rate_limit_reset # None /\ now < Val(rate_limit_reset)

\* the request _perform_request sends for chunk number k of a leg
Request(leg, parameters, k, start) ==
  [leg |-> leg, chunk |-> k, parameters |-> ChunkParameters(parameters)[k],
   start |-> start, username |-> username, password |-> password]

\* the cool-down check of _async_update_data fails the cycle
RefreshRateLimited ==
  /\ pc = "idle"
  /\ RateLimited
  /\ outcome' = "rate_limited"
  /\ requests' = 0
  /\ refresh_requested' = FALSE
  /\ UNCHANGED <<clock, config, cache, running, rate_limit_reset, data, credentials_changed,
                 call>>

\* _async_update_data passes the cool-down check and _fetch_hourly sends the
\* request of its first chunk
RefreshStart ==
  /\ pc = "idle"
  /\ ~RateLimited
  /\ Len(ChunkParameters(HOURLY_PARAMETERS)) > 0
  /\ pc' = "hourly"
  /\ cycle' = Some([now_local |-> now, parameters |-> HOURLY_PARAMETERS,
                    combined |-> <<>>,
                    current |-> None, hourly |-> <<>>,
                    \* what the display layer and the cache held when the cycle started
                    before |-> [data |-> data, daily_data |-> daily_data]])
  /\ request' = Some(Request("hourly", HOURLY_PARAMETERS, 1, TruncateToHour(now)))
  /\ requests' = 1
  /\ refresh_requested' = FALSE
  /\ UNCHANGED <<clock, config, cache, rate_limit_reset, data, outcome, credentials_changed,
                 call>>

\* the clock advances between cycles
Tick ==
  /\ pc = "idle"
  /\ ticks < MaxTicks
  /\ \E step \in TickSteps : now' = now + step
  /\ ticks' = ticks + 1
  /\ UNCHANGED <<drift, config, cache, running, rate_limit_reset, data, outcome,
                 requests, credentials_changed, refresh_requested, call>>

\* the clock advances while a request is in flight
Elapse ==
  /\ pc # "idle"
  /\ drift < MaxDrift
  /\ now' = now + 1
  /\ drift' = drift + 1
  /\ UNCHANGED <<ticks, config, cache, running, rate_limit_reset, data, outcome,
                 requests, credentials_changed, refresh_requested, call>>

\* the cycle ends with a failure: nothing is returned
CycleFails(how) ==
  /\ outcome' = how
  /\ pc' = "idle"
  /\ cycle' = None
  /\ request' = None

\* the cycle ends with a result, which becomes coordinator.data
CycleSucceeds(current, hourly, daily) ==
  /\ rate_limit_reset' = None
  /\ data' = Some([current |-> current, hourly |-> hourly, daily |-> daily])
  /\ outcome' = "success"
  /\ pc' = "idle"
  /\ cycle' = None
  /\ request' = None

\* _handle_rate_limit counting the hour from the start of the cycle
ResponseRateLimitedFromStart ==
  /\ pc # "idle"
  /\ rate_limit_reset' = Some(Val(cycle).now_local + RateLimitCooldown)
  /\ CycleFails("rate_limited")
  /\ UNCHANGED <<clock, config, cache, data, requests, credentials_changed, refresh_requested,
                 call>>

\* a response with status 429: _handle_rate_limit
ResponseRateLimited ==
  /\ pc # "idle"
  /\ rate_limit_reset' = Some(now + RateLimitCooldown)
  /\ CycleFails("rate_limited")
  /\ UNCHANGED <<clock, config, cache, data, requests, credentials_changed, refresh_requested,
                 call>>

\* a response with another error status handled as a 429 is: the cool-down
\* is recorded
ResponseFailedCoolsDown ==
  /\ pc # "idle"
  /\ \E status \in Statuses \ {200, 429} : TRUE
  /\ rate_limit_reset' = Some(now + RateLimitCooldown)
  /\ CycleFails("communication_error")
  /\ UNCHANGED <<clock, config, cache, data, requests, credentials_changed,
                 refresh_requested, call>>

\* a failed request sent again, up to three requests in a cycle
ResponseFailedRetries ==
  /\ pc # "idle"
  /\ \E status \in Statuses \ {200, 429} : TRUE
  /\ IF requests < 3
     THEN requests' = requests + 1 /\ UNCHANGED <<running, outcome>>
     ELSE CycleFails("communication_error") /\ UNCHANGED requests
  /\ UNCHANGED <<clock, config, cache, rate_limit_reset, data, credentials_changed,
                 refresh_requested, call>>

\* a response with another error status (raise_for_status), or no response
ResponseFailed ==
  /\ pc # "idle"
  /\ \E status \in Statuses \ {200, 429} : TRUE
  /\ CycleFails("communication_error")
  /\ UNCHANGED <<clock, config, cache, rate_limit_reset, data, requests, credentials_changed,
                 refresh_requested, call>>

\* coordinator.data["daily"] is the list object _daily_data, so an in-place
\* update of the cached entries shows in the result the display layer reads
Aliased(result, daily) ==
  IF result = None THEN None ELSE Some([Val(result) EXCEPT !.daily = daily])

\* a 200 response to the request of the hourly leg
HourlyResponse ==
  /\ pc = "hourly"
  /\ \E body \in HourlyBodies(Val(request).start) :
       LET chunks == ChunkParameters(Val(cycle).parameters)
           combined == Merge(Val(cycle).combined, ParseResponse(body))
           now_local == Val(cycle).now_local
           current == BuildCurrent(combined, Val(request).start)
           hourly == BuildHourlyForecast(combined)
           entries == ExtractHourlySymbolEntries(combined)
           \* _fetch_hourly: self._update_cached_daily_conditions()
           updated == UpdateCachedDailyConditions(daily_data, entries, combined)
           fetch == DailyFetchDue(daily_fetch_hours, updated, next_daily_fetch, now_local)
       IN  IF Val(request).chunk < Len(chunks)
           THEN \* _fetch_parameters: the next chunk
                /\ cycle' = Some([Val(cycle) EXCEPT !.combined = combined])
                /\ request' = Some(Request("hourly", Val(cycle).parameters,
                                           Val(request).chunk + 1, Val(request).start))
                /\ requests' = requests + 1
                /\ UNCHANGED <<pc, cache, rate_limit_reset, data, outcome>>
           ELSE /\ latest_hourly_parsed' = combined
                /\ hourly_symbol_entries' = entries
                /\ UNCHANGED next_daily_fetch
                /\ IF fetch
                   THEN \* _ensure_daily_data: _fetch_daily sends its first request
                        /\ daily_data' = updated
                        /\ data' = Aliased(data, updated)
                        /\ pc' = "daily"
                        /\ cycle' = Some([Val(cycle) EXCEPT !.parameters = DAILY_PARAMETERS,
                                            !.combined = <<>>,
                                            !.current = Some(current), !.hourly = hourly])
                        /\ request' = Some(Request("daily", DAILY_PARAMETERS, 1,
                                                   ReplaceHour(now, 0)))
                        /\ requests' = requests + 1
                        /\ UNCHANGED <<rate_limit_reset, outcome>>
                   ELSE \* _ensure_daily_data: the cached list is the result
                        /\ daily_data' = UpdateCachedDailyConditions(updated, entries, combined)
                        /\ CycleSucceeds(Some(current), hourly, daily_data')
                        /\ UNCHANGED requests
  /\ UNCHANGED <<clock, config, credentials_changed, refresh_requested, call>>

\* a 200 response to the request of the daily leg
DailyResponse ==
  /\ pc = "daily"
  /\ \E body \in DailyBodies(Val(request).start) :
       LET chunks == ChunkParameters(Val(cycle).parameters)
           combined == Merge(Val(cycle).combined, ParseResponse(body))
           daily == BuildDailyForecast(combined, hourly_symbol_entries, latest_hourly_parsed)
       IN  IF Val(request).chunk < Len(chunks)
           THEN /\ cycle' = Some([Val(cycle) EXCEPT !.combined = combined])
                /\ request' = Some(Request("daily", Val(cycle).parameters,
                                           Val(request).chunk + 1, Val(request).start))
                /\ requests' = requests + 1
                /\ UNCHANGED <<pc, daily_data, next_daily_fetch, rate_limit_reset,
                               data, outcome>>
           ELSE /\ daily_data' = daily
                /\ next_daily_fetch' =
                     IF daily_fetch_hours = None THEN None
                     ELSE Some(CalculateNextDailyFetch(Val(cycle).now_local,
                                                       Val(daily_fetch_hours)))
                /\ CycleSucceeds(Val(cycle).current, Val(cycle).hourly, daily)
                /\ UNCHANGED requests
  /\ UNCHANGED <<clock, config, hourly_symbol_entries, latest_hourly_parsed,
                 credentials_changed, refresh_requested, call>>

(***************************************************************************)
(* The update listener of the config entry.                                *)
(***************************************************************************)
\* async_reload_entry without the early return: a refresh is requested for
\* every notification that finds a coordinator
ReloadEntryAlwaysRefreshes(registered, new) ==
  IF registered = None
  THEN [coordinator |-> None, credentials_changed |-> FALSE, refresh |-> FALSE]
  ELSE LET updated == UpdateCredentials(
                        [username |-> Val(registered).username,
                         password |-> Val(registered).password,
                         rate_limit_reset |-> Val(registered).rate_limit_reset],
                        new.username, new.password)
       IN  [coordinator |-> Some([username |-> updated.username,
                                  password |-> updated.password,
                                  update_interval |-> new.update_interval,
                                  rate_limit_reset |-> updated.rate_limit_reset]),
            credentials_changed |-> updated.changed,
            refresh |-> TRUE]

\* async_reload_entry(hass, entry): registered is hass.data[DOMAIN].get(entry_id),
\* None or the fields of the coordinator the listener reads and writes; the
\* result is these fields after the call, what update_credentials returned
\* and whether async_request_refresh was called
ReloadEntry(registered, new) ==
  IF registered = None
  THEN [coordinator |-> None, credentials_changed |-> FALSE, refresh |-> FALSE]
  ELSE LET interval_changed == Val(registered).update_interval # new.update_interval
           updated == UpdateCredentials(
                        [username |-> Val(registered).username,
                         password |-> Val(registered).password,
                         rate_limit_reset |-> Val(registered).rate_limit_reset],
                        new.username, new.password)
       IN  [coordinator |-> Some([username |-> updated.username,
                                  password |-> updated.password,
                                  update_interval |-> new.update_interval,
                                  rate_limit_reset |-> updated.rate_limit_reset]),
            credentials_changed |-> updated.changed,
            refresh |-> interval_changed \/ updated.changed]

\* the host stores new data and options in the entry and calls
\* async_reload_entry, which applies them to the registered coordinator
AsyncReloadEntry ==
  \E new \in Entries :
    LET reloaded == ReloadEntry(Some([username |-> username, password |-> password,
                                      update_interval |-> update_interval,
                                      rate_limit_reset |-> rate_limit_reset]), new)
    IN  /\ entry' = new
        /\ update_interval' = Val(reloaded.coordinator).update_interval
        /\ username' = Val(reloaded.coordinator).username
        /\ password' = Val(reloaded.coordinator).password
        /\ rate_limit_reset' = Val(reloaded.coordinator).rate_limit_reset
        /\ credentials_changed' = reloaded.credentials_changed
        /\ refresh_requested' = IF reloaded.refresh THEN TRUE ELSE refresh_requested
        /\ UNCHANGED <<clock, daily_fetch_hours, cache, running, data, outcome, requests,
                       call>>

Next ==
  \/ RefreshRateLimited
  \/ RefreshStart
  \/ Tick
  \/ Elapse
  \/ ResponseRateLimited
  \/ ResponseFailed
  \/ HourlyResponse
  \/ DailyResponse
  \/ AsyncReloadEntry

Spec == Init /\ [][Next]_vars

TypeOK ==
  /\ pc \in {"idle", "hourly", "daily"}
  /\ (pc = "idle") = (request = None)
  /\ (pc = "idle") = (cycle = None)
  /\ outcome \in {"none", "success", "rate_limited", "communication_error"}
  /\ requests \in 0..2

(***************************************************************************)
(* The helpers on their own.  A call holds the name of a helper, its       *)
(* arguments (the fields of the coordinator it reads among them) and, once *)
(* it has returned, its result.                                            *)
(***************************************************************************)
\* the sequences over S of length at most n
SeqsUpTo(S, n) == UNION {[1..k -> S] : k \in 0..n}

\* the elements of a sequence
Range(seq) == {seq[i] : i \in 1..Len(seq)}

\* local midnight of the day the coordinator is constructed on
DayStart == ReplaceHour(Least(StartTimes), 0)

Pending(op, args) == Some([op |-> op, args |-> args, result |-> None])
Called(op) == call # None /\ Val(call).op = op /\ Val(call).result = None
Returned(op) == call # None /\ Val(call).op = op /\ Val(call).result # None
Return(result) == Some([Val(call) EXCEPT !.result = Some(result)])
Args == Val(call).args
Result == Val(Val(call).result)

coordinator == <<clock, config, cache, running, rate_limit_reset, data, outcome,
                 requests, credentials_changed, refresh_requested>>

\* the response item of a parameter with samples, none without
Series(name, samples) == IF samples = <<>> THEN <<>> ELSE <<Item(name, samples)>>

\* daily responses with a sample at the day start d: the high is a number or
\* null, each other parameter has a sample or is absent, the symbol is one
\* the table has (3), one it lacks (250) or absent
DailyResponses(d) ==
  { ParseResponse(
      Series("t_max_2m_24h:C", <<Sample(d, high)>>)
      \o Series("t_min_2m_24h:C", low) \o Series("precip_24h:mm", precip)
      \o Series("wind_speed_10m:ms", speed) \o Series("wind_dir_10m:d", bearing)
      \o Series("uv:idx", uv) \o Series("weather_symbol_24h:idx", symbol)) :
      high \in {None, Some(25)},
      low \in {<<>>, <<Sample(d, Some(5))>>},
      precip \in {<<>>, <<Sample(d, Some(0))>>},
      speed \in {<<>>, <<Sample(d, Some(4))>>},
      bearing \in {<<>>, <<Sample(d, Some(180))>>},
      uv \in {<<>>, <<Sample(d, Some(6))>>},
      symbol \in {<<>>, <<Sample(d, Some(3))>>, <<Sample(d, Some(250))>>} }

\* two samples of an hourly parameter, 3 hours before and 1 hour after the
\* midday of the day starting at d
Around(d, morning, afternoon) ==
  <<Sample(d + 9 * HOUR, morning), Sample(d + 13 * HOUR, afternoon)>>

\* retained hourly series around the day starting at d
HourlySeries(d) ==
  { ParseResponse(
      Series("t_2m:C", temps) \o Series("precip_1h:mm", precip)
      \o Series("weather_symbol_1h:idx", symbols)
      \o (IF near = "absent" THEN <<>>
          ELSE LET v(x) == IF near = "null" THEN None ELSE Some(x)
               IN  << Item("wind_speed_10m:ms", Around(d, Some(2), v(3))),
                      Item("wind_dir_10m:d", Around(d, Some(90), v(270))),
                      Item("msl_pressure:hPa", Around(d, Some(1000), v(1013))),
                      Item("uv:idx", Around(d, Some(1), v(5))) >>)) :
      temps \in {<<>>, <<Sample(d + 11 * HOUR, Some(10)), Sample(d + 13 * HOUR, Some(20))>>},
      precip \in {<<>>, <<Sample(d + HOUR, None)>>,
                  <<Sample(d, Some(1)), Sample(d + 23 * HOUR, Some(2)),
                    Sample(d + DAY, Some(4))>>},
      symbols \in {<<>>, <<Sample(d + 6 * HOUR, Some(61)), Sample(d + 14 * HOUR, Some(1))>>},
      near \in {"absent", "null", "valued"} }

\* _build_daily_forecast(parsed) with the index and the series _fetch_hourly
\* retained
BuildDailyForecastCalls ==
  { Pending("_build_daily_forecast",
            [parsed |-> parsed, entries |-> ExtractHourlySymbolEntries(latest),
             latest |-> latest]) :
      parsed \in DailyResponses(DayStart), latest \in HourlySeries(DayStart) }

BuildDailyForecastCall ==
  /\ Called("_build_daily_forecast")
  /\ call' = Return(BuildDailyForecast(Args.parsed, Args.entries, Args.latest))
  /\ UNCHANGED coordinator

\* _chunk_parameters(parameters): the lists of the two legs and the lists of
\* up to MaxParameters parameter names
ChunkParametersCalls ==
  LET names == HOURLY_PARAMETERS \o DAILY_PARAMETERS \o HOURLY_PARAMETERS
                 \o DAILY_PARAMETERS
  IN  { Pending("_chunk_parameters", [parameters |-> parameters]) :
          parameters \in {HOURLY_PARAMETERS, DAILY_PARAMETERS}
                           \cup {SubSeq(names, 1, n) : n \in 0..MaxParameters} }

ChunkParametersCall ==
  /\ Called("_chunk_parameters")
  /\ call' = Return(ChunkParameters(Args.parameters))
  /\ UNCHANGED coordinator

\* WEATHER_SYMBOL_MAP.get(code)
WeatherSymbolMapGetCalls ==
  { Pending("WEATHER_SYMBOL_MAP.get", [code |-> code]) : code \in (0 - 1)..MaxCode }

WeatherSymbolMapGetCall ==
  /\ Called("WEATHER_SYMBOL_MAP.get")
  /\ call' = Return(WeatherSymbolMapGet(Args.code))
  /\ UNCHANGED coordinator

\* a parsed response with one parameter and the samples of a series
Only(parameter, series) == [n \in {parameter} |-> series]

\* _value_at(parsed, "t_2m:C", target): the response lacks the parameter or
\* has up to MaxSamples samples of it, dated at the day start, an hour later
\* or unparseably, with the value null, 1 or 2
ValueAtCalls ==
  LET samples == {[date |-> date, value |-> value] :
                    date \in {IsoDate(DayStart), IsoDate(DayStart + HOUR), BadDate},
                    value \in {None, Some(1), Some(2)}}
      responses == {<<>>} \cup {Only("t_2m:C", series) :
                                  series \in SeqsUpTo(samples, MaxSamples)}
  IN  { Pending("_value_at", [parsed |-> parsed, parameter |-> "t_2m:C",
                              target |-> target]) :
          parsed \in responses, target \in {DayStart, DayStart + HOUR} }

ValueAtCall ==
  /\ Called("_value_at")
  /\ call' = Return(ValueAt(Args.parsed, Args.parameter, Args.target))
  /\ UNCHANGED coordinator

\* _sum_hourly_values("precip_1h:mm", start, end) over one day: the retained
\* series lacks the parameter or has up to MaxSamples samples of it, dated an
\* hour before the start, at the start, an hour before the end or at the
\* end, with the value null, 1, 2 or a text
SumHourlyValuesCalls ==
  LET samples == {Sample(t, value) :
                    t \in {DayStart - HOUR, DayStart, DayStart + DAY - HOUR,
                           DayStart + DAY},
                    value \in {None, Some(1), Some(2), Text("bad")}}
      retained == {<<>>} \cup {Only("precip_1h:mm", series) :
                                 series \in SeqsUpTo(samples, MaxSamples)}
  IN  { Pending("_sum_hourly_values",
                [latest |-> latest, parameter |-> "precip_1h:mm",
                 start |-> DayStart, end |-> DayStart + DAY]) :
          latest \in retained }

SumHourlyValuesCall ==
  /\ Called("_sum_hourly_values")
  /\ call' = Return(SumHourlyValues(Args.latest, Args.parameter, Args.start, Args.end))
  /\ UNCHANGED coordinator

\* _infer_daily_condition(day_start) with the index
\* _extract_hourly_symbol_entries makes of up to MaxSamples samples of
\* weather_symbol_1h:idx, dated 06:00, 11:00, 13:00, 14:00 of the day or
\* 00:00 of the next day, with the code null, 1 (sunny) or 61 (rainy)
InferDailyConditionCalls ==
  LET samples == {Sample(DayStart + h * HOUR, code) :
                    h \in {6, 11, 13, 14, 24}, code \in {None, Some(1), Some(61)}}
  IN  { Pending("_infer_daily_condition",
                [series |-> series,
                 entries |-> ExtractHourlySymbolEntries(
                               Only("weather_symbol_1h:idx", series)),
                 day_start |-> DayStart]) :
          series \in SeqsUpTo(samples, MaxSamples) }

InferDailyConditionCall ==
  /\ Called("_infer_daily_condition")
  /\ call' = Return(InferDailyCondition(Args.entries, Args.day_start))
  /\ UNCHANGED coordinator

\* _derive_daily_temperatures() with a retained series of up to MaxSamples
\* samples of t_2m:C, dated 23:00 local time of the day of construction,
\* 00:00 or 01:00 of the next day, with the value null, 15, 18 or a text
DeriveDailyTemperaturesCalls ==
  LET midnight == DayStart + DAY
      samples == {Sample(t, value) :
                    t \in {midnight - HOUR, midnight, midnight + HOUR},
                    value \in {None, Some(15), Some(18), Text("n/a")}}
  IN  { Pending("_derive_daily_temperatures",
                [latest |-> Only("t_2m:C", series)]) :
          series \in SeqsUpTo(samples, MaxSamples) }

DeriveDailyTemperaturesCall ==
  /\ Called("_derive_daily_temperatures")
  /\ call' = Return(DeriveDailyTemperatures(Args.latest))
  /\ UNCHANGED coordinator

\* _parse_response(data): a document without "data" or with up to MaxItems
\* items, each with no name or one of two names and with zero, one or two
\* coordinate groups
ParseResponseCalls ==
  LET first == [dates |-> <<Sample(DayStart, Some(1))>>]
      second == [dates |-> <<Sample(DayStart, Some(2))>>]
      items == {[parameter |-> name, coordinates |-> coordinates] :
                  name \in {"", "t_2m:C", "uv:idx"},
                  coordinates \in {<<>>, <<first>>, <<first, second>>, <<second, first>>}}
  IN  { Pending("_parse_response", [document |-> document]) :
          document \in {None} \cup {Some(body) : body \in SeqsUpTo(items, MaxItems)} }

ParseResponseCall ==
  /\ Called("_parse_response")
  /\ call' = Return(ParseResponse(DataOf(Args.document)))
  /\ UNCHANGED coordinator

\* what the user submits in the form of the first screen: nothing yet, or
\* credentials, a plan tier and an update interval
UserInputs ==
  {None} \cup {Some([username |-> "u1", password |-> pw, plan_type |-> plan,
                     update_interval |-> minutes]) :
                 pw \in {"p1", "p2"}, plan \in {"basic", "paid_trial"},
                 minutes \in {20, 30}}

\* answers to the validation request
ValidationResponses ==
  {Answered(status) : status \in {200, 401, 403, 500}} \cup {NoConnection, TimedOut}

\* MeteomaticsConfigFlow.async_step_user(user_input)
AsyncStepUserCalls ==
  { Pending("async_step_user",
            [pending_user_input |-> None, user_input |-> user_input,
             response |-> response, configured |-> configured]) :
      user_input \in UserInputs, response \in ValidationResponses,
      configured \in BOOLEAN }

AsyncStepUserCall ==
  /\ Called("async_step_user")
  /\ call' = Return(AsyncStepUser(Args.pending_user_input, Args.user_input,
                                  Args.response, Args.configured))
  /\ UNCHANGED coordinator

\* MeteomaticsOptionsFlow.async_step_init(user_input) on one of the entries
AsyncStepInitCalls ==
  { Pending("async_step_init",
            [config_entry |-> config_entry, user_input |-> user_input,
             response |-> response]) :
      config_entry \in Entries, user_input \in UserInputs,
      response \in ValidationResponses }

AsyncStepInitCall ==
  /\ Called("async_step_init")
  /\ call' = Return(AsyncStepInit(Args.config_entry, Args.user_input, Args.response))
  /\ UNCHANGED coordinator

\* _update_cached_daily_conditions() on a cached list that
\* _build_daily_forecast made of the daily response parsed while no hourly
\* sample was retained, with the index and the series of a later hourly
\* response
UpdateCachedDailyConditionsCalls ==
  { Pending("_update_cached_daily_conditions",
            [parsed |-> parsed,
             daily |-> BuildDailyForecast(parsed, <<>>, <<>>),
             entries |-> ExtractHourlySymbolEntries(latest),
             latest |-> latest]) :
      parsed \in {response \in DailyResponses(DayStart) :
                    DOMAIN response \subseteq {"t_max_2m_24h:C", "t_min_2m_24h:C",
                                               "weather_symbol_24h:idx"}},
      latest \in HourlySeries(DayStart) }

UpdateCachedDailyConditionsCall ==
  /\ Called("_update_cached_daily_conditions")
  /\ call' = Return(UpdateCachedDailyConditions(Args.daily, Args.entries, Args.latest))
  /\ UNCHANGED coordinator

\* _hourly_value_near("wind_speed_10m:ms", target) at the midday of the day
\* of construction: the retained series lacks the parameter or has up to
\* MaxSamples samples of it, dated 2 hours before the target, 1 or 2 hours
\* after it, 10 days after it or unparseably, with the value null, 1 or 2
HourlyValueNearCalls ==
  LET target == DayStart + 12 * HOUR
      samples == {[date |-> date, value |-> value] :
                    date \in {IsoDate(target - 2 * HOUR), IsoDate(target + HOUR),
                              IsoDate(target + 2 * HOUR), IsoDate(target + 10 * DAY),
                              BadDate},
                    value \in {None, Some(1), Some(2)}}
      retained == {<<>>} \cup {Only("wind_speed_10m:ms", series) :
                                 series \in SeqsUpTo(samples, MaxSamples)}
  IN  { Pending("_hourly_value_near",
                [latest |-> latest, parameter |-> "wind_speed_10m:ms",
                 target |-> target]) :
          latest \in retained }

HourlyValueNearCall ==
  /\ Called("_hourly_value_near")
  /\ call' = Return(HourlyValueNear(Args.latest, Args.parameter, Args.target))
  /\ UNCHANGED coordinator

\* async_reload_entry(hass, entry) for an entry of Entries: no coordinator is
\* registered for the entry, or one that was set up from an entry of Entries
\* and has no cool-down or one that ends an hour after construction
ReloadEntryCalls ==
  LET registered ==
        {None} \cup
        {Some([username |-> old.username, password |-> old.password,
               update_interval |-> old.update_interval,
               rate_limit_reset |-> reset]) :
           old \in Entries, reset \in {None, Some(DayStart + RateLimitCooldown)}}
  IN  { Pending("async_reload_entry", [registered |-> found, entry |-> new]) :
          found \in registered, new \in Entries }

ReloadEntryCall ==
  /\ Called("async_reload_entry")
  /\ call' = Return(ReloadEntry(Args.registered, Args.entry))
  /\ UNCHANGED coordinator

\* what the optional-parameter screen can submit: any choice among the
\* parameters of the catalogue and one parameter the catalogue lacks, in the
\* order the form lists them
BasicParameterSelections ==
  LET listed == <<"dew_point_2m:C", "snow_depth:cm", "uv:idx", "visibility:km",
                  "wind_gusts_10m_1h:ms", "relative_humidity_2m:p", "fresh_snow_24h:cm",
                  "pollen_grass:grainsm3">>
  IN  {SelectSeq(listed, LAMBDA param : param \in chosen) : chosen \in SUBSET Range(listed)}

\* MeteomaticsConfigFlow.async_step_basic_parameters(user_input): the flow
\* holds no pending input, or the input async_step_user stored for a Basic
\* entry; the screen is shown first (None) or submitted
ConfigFlowBasicParametersCalls ==
  LET pending == {None} \cup
                 {Some([username |-> "u1", password |-> pw, plan_type |-> "basic",
                        update_interval |-> minutes, basic_optional_parameters |-> <<>>]) :
                    pw \in {"p1", "p2"}, minutes \in {20, 30}}
      submitted == {None} \cup {Some(selected) : selected \in BasicParameterSelections}
  IN  { Pending("config.async_step_basic_parameters",
                [pending_user_input |-> pending_user_input, user_input |-> user_input,
                 configured |-> configured]) :
          pending_user_input \in pending, user_input \in submitted,
          configured \in BOOLEAN }

ConfigFlowBasicParametersCall ==
  /\ Called("config.async_step_basic_parameters")
  /\ call' = Return(ConfigFlowBasicParameters(Args.pending_user_input, Args.user_input,
                                              Args.configured))
  /\ UNCHANGED coordinator

\* MeteomaticsOptionsFlow.async_step_basic_parameters(user_input) on one of
\* the entries: the flow holds nothing pending, or what async_step_init
\* stored for a validated Basic input
OptionsFlowBasicParametersCalls ==
  LET stored(config_entry) ==
        {[pending_new_data |-> None, pending_options |-> None]} \cup
        {[pending_new_data |-> step.pending_new_data,
          pending_options |-> step.pending_options] :
           step \in {AsyncStepInit(config_entry, user_input, Answered(200)) :
                       user_input \in {input \in UserInputs \ {None} :
                                         Val(input).plan_type = "basic"}}}
      submitted == {None} \cup {Some(selected) : selected \in BasicParameterSelections}
  IN  UNION { { Pending("options.async_step_basic_parameters",
                        [config_entry |-> config_entry,
                         pending_new_data |-> pending.pending_new_data,
                         pending_options |-> pending.pending_options,
                         user_input |-> user_input]) :
                  pending \in stored(config_entry), user_input \in submitted } :
              config_entry \in Entries }

OptionsFlowBasicParametersCall ==
  /\ Called("options.async_step_basic_parameters")
  /\ call' = Return(OptionsFlowBasicParameters(Args.config_entry, Args.pending_new_data,
                                               Args.pending_options, Args.user_input))
  /\ UNCHANGED coordinator

\* the optional-parameter screen was shown (async_show_form with step_id
\* "basic_parameters") and the user submits it: the host calls the same step
\* of the same flow again with the submission
BasicParametersSubmitted ==
  /\ \/ Returned("config.async_step_basic_parameters")
     \/ Returned("options.async_step_basic_parameters")
  /\ Result.result.type = "form"
  /\ \E selected \in BasicParameterSelections :
       call' = Some([op |-> Val(call).op,
                     args |-> [Args EXCEPT !.user_input = Some(selected)],
                     result |-> None])
  /\ UNCHANGED coordinator

\* a helper has been called with arguments of one of the sets above
HelperInit ==
  /\ Constructed
  /\ now = Least(StartTimes)
  /\ \/ call \in BuildDailyForecastCalls
     \/ call \in ChunkParametersCalls
     \/ call \in WeatherSymbolMapGetCalls
     \/ call \in ValueAtCalls
     \/ call \in SumHourlyValuesCalls
     \/ call \in InferDailyConditionCalls
     \/ call \in DeriveDailyTemperaturesCalls
     \/ call \in ParseResponseCalls
     \/ call \in AsyncStepUserCalls
     \/ call \in AsyncStepInitCalls
     \/ call \in UpdateCachedDailyConditionsCalls
     \/ call \in HourlyValueNearCalls
     \/ call \in ReloadEntryCalls
     \/ call \in ConfigFlowBasicParametersCalls
     \/ call \in OptionsFlowBasicParametersCalls

HelperNext ==
  \/ BuildDailyForecastCall
  \/ ChunkParametersCall
  \/ WeatherSymbolMapGetCall
  \/ ValueAtCall
  \/ SumHourlyValuesCall
  \/ InferDailyConditionCall
  \/ DeriveDailyTemperaturesCall
  \/ ParseResponseCall
  \/ AsyncStepUserCall
  \/ AsyncStepInitCall
  \/ UpdateCachedDailyConditionsCall
  \/ HourlyValueNearCall
  \/ ReloadEntryCall
  \/ ConfigFlowBasicParametersCall
  \/ OptionsFlowBasicParametersCall
  \/ BasicParametersSubmitted

HelperSpec == HelperInit /\ [][HelperNext]_vars

(***************************************************************************)
(* Properties                                                              *)
(***************************************************************************)
\* a step that starts a refresh cycle
CycleStarts == RefreshStart \/ RefreshRateLimited
\* a step in which a cycle that sent a request ends without a result
CycleFailsStep == pc # "idle" /\ pc' = "idle" /\ outcome' # "success"
\* a step in which a cycle ends with a result
CycleSucceedsStep == pc # "idle" /\ pc' = "idle" /\ outcome' = "success"

\* C1: a cycle started while rate-limit-reset is set and the clock is before
\* it (less than one hour after the 429 that set it) ends at once with the
\* rate-limited failure and sends no HTTP request.
C1_CooldownFailsFast ==
  [][ (CycleStarts /\ rate_limit_reset # None /\ now < Val(rate_limit_reset))
        => /\ pc' = "idle"
           /\ request' = None
           /\ requests' = 0
           /\ outcome' = "rate_limited"
           /\ rate_limit_reset' = rate_limit_reset ]_vars

\* a cycle started 30 minutes after a 429 has failed without a request
C1_Witness ==
  /\ outcome = "rate_limited"
  /\ requests = 0
  /\ pc = "idle"
  /\ rate_limit_reset # None
  /\ now = Val(rate_limit_reset) - 30

\* C2: a 429 response to the request of either leg sets rate-limit-reset to
\* the clock plus one hour and ends the cycle with the rate-limited failure;
\* no further request is sent.
C2_RateLimitRecorded ==
  [][ ResponseRateLimited
        => /\ rate_limit_reset' = Some(now + 60)
           /\ outcome' = "rate_limited"
           /\ pc' = "idle"
           /\ request' = None
           /\ requests' = requests ]_vars

\* the daily request of a cycle was answered with 429 just now
C2_Witness ==
  /\ outcome = "rate_limited"
  /\ requests = 2
  /\ pc = "idle"
  /\ rate_limit_reset = Some(now + 60)

\* C3: a cycle started once the clock has reached rate-limit-reset sends the
\* hourly request; a cycle that succeeds leaves rate-limit-reset unset; a
\* cycle that fails does not clear it.
C3_CooldownExpires ==
  [][ /\ (CycleStarts /\ rate_limit_reset # None /\ now >= Val(rate_limit_reset))
         => (pc' = "hourly" /\ requests' = 1 /\ request' # None
             /\ Val(request').leg = "hourly")
      /\ CycleSucceedsStep => rate_limit_reset' = None
      /\ (CycleFailsStep \/ RefreshRateLimited)
         => (rate_limit_reset # None => rate_limit_reset' # None) ]_vars

\* a cycle started exactly when the cool-down ended is waiting for its hourly
\* response
C3_Witness ==
  /\ pc = "hourly"
  /\ rate_limit_reset # None
  /\ Val(cycle).now_local = Val(rate_limit_reset)

\* C4: update_credentials returns true iff the pair differs from the stored
\* one; then it stores the pair and clears rate-limit-reset and leaves the
\* daily cache, next-daily-fetch and the hourly series and index alone;
\* otherwise it changes nothing.
C4_UpdateCredentials ==
  [][ AsyncReloadEntry =>
        LET differs == <<entry'.username, entry'.password>> # <<username, password>>
        IN  /\ credentials_changed' = differs
            /\ differs => /\ username' = entry'.username
                          /\ password' = entry'.password
                          /\ rate_limit_reset' = None
            /\ ~differs => UNCHANGED <<username, password, rate_limit_reset>>
            /\ UNCHANGED <<daily_data, next_daily_fetch, latest_hourly_parsed,
                           hourly_symbol_entries>> ]_vars

\* new credentials were applied during a cool-down and with a daily cache
C4_Witness ==
  /\ credentials_changed
  /\ outcome = "rate_limited"
  /\ rate_limit_reset = None
  /\ daily_data # <<>>
  /\ next_daily_fetch # None
  /\ <<username, password>> = <<entry.username, entry.password>>

\* C5: a change of the plan tier applied to the coordinator clears the
\* cached daily forecast, next-daily-fetch and the rate-limit cool-down.
C5_PlanChangeResets ==
  [][ (AsyncReloadEntry /\ entry'.plan_type # entry.plan_type)
        => /\ daily_data' = <<>>
           /\ next_daily_fetch' = None
           /\ rate_limit_reset' = None ]_vars

\* C6: when the hourly leg has succeeded, a daily request is sent iff the
\* cached daily list is empty, next-daily-fetch is unset or the cycle's local
\* time has reached next-daily-fetch; otherwise the cycle succeeds without a
\* daily request and its result carries the cached daily list.
C6_DailyFetchDecision ==
  [][ (HourlyResponse /\ pc' # "hourly") =>
        LET due == \/ daily_data = <<>>
                   \/ next_daily_fetch = None
                   \/ Val(cycle).now_local >= Val(next_daily_fetch)
        IN  /\ due => /\ pc' = "daily"
                      /\ requests' = requests + 1
                      /\ Val(request').leg = "daily"
            /\ ~due => /\ pc' = "idle"
                       /\ outcome' = "success"
                       /\ requests' = requests
                       /\ request' = None
                       /\ Len(daily_data') = Len(daily_data)
                       /\ Val(data').daily = daily_data' ]_vars

\* a cycle has succeeded on one request, with the cached daily list, before
\* next-daily-fetch
C6_Witness ==
  /\ pc = "idle"
  /\ outcome = "success"
  /\ requests = 1
  /\ daily_data # <<>>
  /\ Val(data).daily = daily_data
  /\ now < Val(next_daily_fetch)

\* the fetch boundary after a local time, from the hours 03, 09, 15 and 21
C7_Boundary(t) ==
  LET local == t + TimeZoneOffset
      time == local % 1440
      midnight == local - time
      boundary == IF time < 180 THEN midnight + 180
                  ELSE IF time < 540 THEN midnight + 540
                  ELSE IF time < 900 THEN midnight + 900
                  ELSE IF time < 1260 THEN midnight + 1260
                  ELSE midnight + 1440 + 180
  IN  boundary - TimeZoneOffset

\* C7: a successful daily fetch sets next-daily-fetch to the first of 03:00,
\* 09:00, 15:00, 21:00 on the cycle's local date that is strictly later than
\* the cycle's local time, or to 03:00 of the next local date.
C7_NextDailyFetch ==
  [][ (DailyResponse /\ pc' = "idle")
        => next_daily_fetch' = Some(C7_Boundary(Val(cycle).now_local)) ]_vars

\* a daily fetch of a cycle started at 15:00:00 local time has set
\* next-daily-fetch to 21:00 of that day
C7_Witness ==
  /\ pc = "idle"
  /\ outcome = "success"
  /\ requests = 2
  /\ (now + TimeZoneOffset) % 1440 = 15 * 60
  /\ next_daily_fetch = Some(now + 6 * 60)

\* C8: when a cycle fails, the result the display layer reads and the cached
\* daily list are what they were when the cycle started.
C8_FailureKeepsLastGood ==
  [][ CycleFailsStep
        => /\ data' = Val(cycle).before.data
           /\ daily_data' = Val(cycle).before.daily_data ]_vars

\* C10: update_credentials writes the coordinator's credentials and
\* rate-limit-reset only when no cycle is waiting for a response.
C10_UpdateOnlyWhenIdle ==
  [][ (AsyncReloadEntry /\ <<username, password, rate_limit_reset>>'
                             # <<username, password, rate_limit_reset>>)
        => pc = "idle" ]_vars

\* C20: a cycle of a Basic-tier entry hands the hourly leg the baseline
\* hourly parameters together with the selected optional parameters whose
\* scope includes "hourly", and each of these is in one of the hourly
\* requests.
C20_BasicHourlyParameters ==
  [][ (RefreshStart /\ entry.plan_type = "basic") =>
        LET selected == {p \in Range(entry.basic_optional_parameters) :
                           /\ p \in DOMAIN BASIC_OPTIONAL_PARAMETER_SCOPES
                           /\ "hourly" \in BASIC_OPTIONAL_PARAMETER_SCOPES[p]}
            chunks == ChunkParameters(Val(cycle').parameters)
        IN  /\ Range(Val(cycle').parameters) = Range(HOURLY_PARAMETERS) \cup selected
            /\ \A p \in selected : \E k \in 1..Len(chunks) : p \in Range(chunks[k]) ]_vars

\* C21: a request answered with an error status other than 429, or not
\* answered (timeout, connection failure), ends the cycle with one failure,
\* sends no further request and leaves rate-limit-reset, the cached daily
\* list and next-daily-fetch as they were: no cool-down is recorded.
C21_RequestFailure ==
  [][ (pc # "idle" /\ outcome' = "communication_error" /\ pc' = "idle")
        => /\ request' = None
           /\ cycle' = None
           /\ requests' = requests
           /\ rate_limit_reset' = rate_limit_reset
           /\ daily_data' = daily_data
           /\ next_daily_fetch' = next_daily_fetch ]_vars

\* the daily request of a cycle started at the end of a cool-down, with a
\* cached daily list, has just failed
C21_Witness ==
  /\ outcome = "communication_error"
  /\ pc = "idle"
  /\ requests = 2
  /\ rate_limit_reset = Some(now)
  /\ daily_data # <<>>
  /\ next_daily_fetch # None

\* C22: within a cycle no request is sent twice: the requests sent so far
\* are the chunks of the plan up to the one in flight, each once, in order;
\* when a request fails the cycle sends no further request, so that a
\* failure in the hourly leg leaves the daily leg unattempted; the next
\* request is the first one of a new cycle.
C22_NoRetry ==
  [][ LET hourly_chunks == Len(ChunkParameters(HOURLY_PARAMETERS))
      IN  /\ pc = "hourly" => requests = Val(request).chunk
          /\ pc = "daily" => requests = hourly_chunks + Val(request).chunk
          /\ (pc # "idle" /\ requests' # requests)
               => /\ requests' = requests + 1
                  /\ request' # None
                  /\ outcome' = outcome
                  /\ \/ /\ Val(request').leg = Val(request).leg
                        /\ Val(request').chunk = Val(request).chunk + 1
                     \/ /\ Val(request).leg = "hourly"
                        /\ Val(request).chunk = hourly_chunks
                        /\ Val(request').leg = "daily"
                        /\ Val(request').chunk = 1
          /\ CycleFailsStep => (request' = None /\ requests' = requests)
          /\ (pc = "hourly" /\ pc' = "daily") => outcome' = outcome
          /\ (pc = "idle" /\ request' # None)
               => /\ requests' = 1
                  /\ Val(request').leg = "hourly"
                  /\ Val(request').chunk = 1 ]_vars

\* the hourly request of a cycle has failed and the cycle has ended on that
\* one request, the daily list still to be fetched
C22_Witness ==
  /\ outcome = "communication_error"
  /\ pc = "idle"
  /\ requests = 1
  /\ request = None
  /\ daily_data = <<>>

C25_Temperatures(parsed, day) ==
  LET series == IF "t_2m:C" \in DOMAIN parsed THEN parsed["t_2m:C"] ELSE <<>>
  IN  {series[i].value[1] :
         i \in {j \in 1..Len(series) :
                  /\ series[j].date.iso
                  /\ Len(series[j].value) = 1
                  /\ (series[j].date.t + TimeZoneOffset) \div 1440 = day}}

\* the local days on which a parsed response has a sample of the parameter
C25_Days(parsed, parameter) ==
  LET series == IF parameter \in DOMAIN parsed THEN parsed[parameter] ELSE <<>>
  IN  {(series[i].date.t + TimeZoneOffset) \div 1440 :
         i \in {j \in 1..Len(series) : series[j].date.iso}}

\* C25: when a cycle ends on the cached daily list, each cached entry whose
\* local day has a sample in the hourly series just fetched has the
\* condition inferred from the new hourly condition index, and the greatest
\* and least hourly temperature of its local day as high and low; an entry
\* whose day has no hourly temperature keeps its high and low; the list
\* keeps its entries and their other fields.
C25_CacheRederived ==
  [][ (HourlyResponse /\ pc' = "idle") =>
        /\ Len(daily_data') = Len(daily_data)
        /\ \A i \in 1..Len(daily_data) :
             LET old == daily_data[i]
                 new == daily_data'[i]
                 day == (old.datetime + TimeZoneOffset) \div 1440
                 temps == C25_Temperatures(latest_hourly_parsed', day)
                 covered == day \in C25_Days(latest_hourly_parsed', "t_2m:C")
                                     \cup C25_Days(latest_hourly_parsed',
                                                   "weather_symbol_1h:idx")
             IN  /\ covered => new.condition =
                                  InferDailyCondition(hourly_symbol_entries', old.datetime)
                 /\ temps # {} =>
                      /\ new.temperature # <<>> /\ new.temperature[1] \in temps
                      /\ new.templow # <<>> /\ new.templow[1] \in temps
                      /\ \A t \in temps : new.templow[1] <= t /\ t <= new.temperature[1]
                 /\ temps = {} => /\ new.temperature = old.temperature
                                  /\ new.templow = old.templow
                 /\ [new EXCEPT !.condition = <<>>, !.temperature = <<>>, !.templow = <<>>]
                      = [old EXCEPT !.condition = <<>>, !.temperature = <<>>,
                                    !.templow = <<>>] ]_vars

\* a cycle has ended on the cached entry of today, fetched as cloudy with
\* the hourly temperature 20: its condition is now the hourly "rainy" and
\* its high and low the hourly 10
C25_Witness ==
  /\ pc = "idle"
  /\ outcome = "success"
  /\ requests = 1
  /\ Len(daily_data) = 1
  /\ (daily_data[1].datetime + TimeZoneOffset) \div 1440 = (now + TimeZoneOffset) \div 1440
  /\ daily_data[1].condition = <<"rainy">>
  /\ daily_data[1].temperature = <<10>>
  /\ daily_data[1].templow = <<10>>

\* C29: rate-limit-reset is set only by the 429 response to a request that
\* was authenticated with the credentials the coordinator holds when the
\* response arrives: a request sent before update_credentials returned true
\* establishes no cool-down under the new credentials.
C29_CooldownOfCurrentCredentials ==
  [][ (rate_limit_reset' # <<>> /\ rate_limit_reset' # rate_limit_reset)
        => /\ request # <<>>
           /\ request[1].username = username
           /\ request[1].password = password ]_vars

\* C30: with the fetch hours 3, 9, 15, 21, the next-daily-fetch a daily fetch
\* computes is a boundary strictly later than the local time of its cycle
\* and at most 6 hours later, and nothing else changes next-daily-fetch; a
\* cycle that returns the cached daily list runs before that boundary, hence
\* less than 6 hours after the cycle that fetched the list; a fetch that
\* replaces a non-empty daily list with a non-empty one belongs to a cycle
\* at or after the boundary that followed the cycle whose fetch it replaces,
\* so that no two such fetches fall between two consecutive boundaries.  A
\* cycle is timed by its local time at its start.
C30_Schedule ==
  [][ LET fetched == pc = "daily" /\ pc' = "idle" /\ outcome' = "success"
          reused == pc = "hourly" /\ pc' = "idle" /\ outcome' = "success"
      IN  /\ fetched
               => /\ next_daily_fetch' # <<>>
                  /\ next_daily_fetch'[1] > cycle[1].now_local
                  /\ next_daily_fetch'[1] <= cycle[1].now_local + 360
                  /\ (next_daily_fetch'[1] + TimeZoneOffset) % 1440
                        \in {180, 540, 900, 1260}
                  /\ data'[1].daily = daily_data'
          /\ next_daily_fetch' # next_daily_fetch => fetched
          /\ Len(daily_data') # Len(daily_data) => fetched
          /\ reused
               => /\ next_daily_fetch # <<>>
                  /\ cycle[1].now_local < next_daily_fetch[1]
                  /\ data'[1].daily = daily_data'
          /\ (fetched /\ daily_data # <<>> /\ daily_data' # <<>>)
               => /\ next_daily_fetch # <<>>
                  /\ cycle[1].now_local >= next_daily_fetch[1] ]_vars

\* a cycle at 15:30 local time has returned the cached daily list, fetched
\* by a cycle since 15:00 that set next-daily-fetch to 21:00
C30_Witness ==
  /\ pc = "idle"
  /\ outcome = "success"
  /\ requests = 1
  /\ ticks = 2
  /\ daily_data # <<>>
  /\ data[1].daily = daily_data
  /\ next_daily_fetch = <<now - 30 + 360>>
  /\ (now + TimeZoneOffset) % 1440 = 15 * 60 + 30

\* next-daily-fetch is unset or at minute 0 of one of the fetch hours, local
\* time
C31_OnFetchHour(next, fetch_hours) ==
  next # <<>> =>
    \E i \in 1..Len(fetch_hours[1]) :
      (next[1] + TimeZoneOffset) % 1440 = fetch_hours[1][i] * 60

\* C31: in every state of the coordinator a non-empty cached daily list
\* comes with a next-daily-fetch, and a next-daily-fetch is at minute 0 of
\* one of the configured fetch hours; a cycle that fails and a credential
\* update leave next-daily-fetch as it was.
C31_NextDailyFetchInvariant ==
  [][ /\ daily_data # <<>> => next_daily_fetch # <<>>
      /\ daily_data' # <<>> => next_daily_fetch' # <<>>
      /\ C31_OnFetchHour(next_daily_fetch, daily_fetch_hours)
      /\ C31_OnFetchHour(next_daily_fetch', daily_fetch_hours')
      /\ (pc' = "idle" /\ outcome' # "success" /\ (pc # "idle" \/ requests' = 0))
           => next_daily_fetch' = next_daily_fetch
      /\ (<<username, password>>' # <<username, password>> \/ entry' # entry)
           => next_daily_fetch' = next_daily_fetch ]_vars

\* after a daily fetch at or after 21:00 set next-daily-fetch to 03:00 of the
\* next day, the credentials were updated and a cycle failed: the cached list
\* and next-daily-fetch are still there
C31_Witness ==
  /\ pc = "idle"
  /\ outcome = "communication_error"
  /\ credentials_changed
  /\ daily_data # <<>>
  /\ next_daily_fetch # <<>>
  /\ (next_daily_fetch[1] + TimeZoneOffset) % 1440 = 3 * 60
  /\ next_daily_fetch[1] > now

\* C32: a daily fetch that yields an empty list sets next-daily-fetch, yet
\* the empty list is no cache: while the cached daily list is empty, every
\* cycle whose hourly leg succeeds sends a daily request, before
\* next-daily-fetch too, and no cycle succeeds on the hourly leg alone.
C32_EmptyListRefetched ==
  [][ /\ (pc = "daily" /\ pc' = "idle" /\ outcome' = "success" /\ daily_data' = <<>>)
           => next_daily_fetch' # <<>>
      /\ (pc = "hourly" /\ daily_data = <<>> /\ HourlyResponse /\ pc' # "hourly")
           => /\ pc' = "daily"
              /\ requests' = requests + 1
              /\ request'[1].leg = "daily"
      /\ (pc = "hourly" /\ daily_data = <<>> /\ pc' = "idle") => outcome' # "success" ]_vars

\* after a cycle that fetched an empty daily list and set next-daily-fetch,
\* a cycle started before next-daily-fetch has sent a daily request
C32_Witness ==
  /\ pc = "daily"
  /\ outcome = "success"
  /\ daily_data = <<>>
  /\ data # <<>>
  /\ data[1].daily = <<>>
  /\ next_daily_fetch # <<>>
  /\ cycle[1].now_local < next_daily_fetch[1]
  /\ request[1].leg = "daily"

(***************************************************************************)
(* Properties of the helpers                                               *)
(***************************************************************************)
\* the samples of a parameter in a parsed response
SamplesOf(parsed, parameter) ==
  IF parameter \in DOMAIN parsed THEN parsed[parameter] ELSE <<>>

\* the positions of the samples of a series dated exactly t
DatedAt(series, t) == {i \in 1..Len(series) : series[i].date = IsoDate(t)}

\* the value a response carries for a parameter at t, when at most one sample
\* is dated t
Fetched(parsed, parameter, t) ==
  LET series == SamplesOf(parsed, parameter)
  IN  IF DatedAt(series, t) = {} THEN None
      ELSE series[CHOOSE i \in DatedAt(series, t) : TRUE].value

\* the sum of the values of the samples of a series at the positions S
RECURSIVE SumAt(_, _)
SumAt(series, S) ==
  IF S = {} THEN 0
  ELSE LET i == CHOOSE x \in S : TRUE
       IN  series[i].value[1] + SumAt(series, S \ {i})

\* the positions of the samples of a series with a number dated in [start, end)
NumbersIn(series, start, end) ==
  {i \in 1..Len(series) : /\ series[i].date.iso
                          /\ start <= series[i].date.t
                          /\ series[i].date.t < end
                          /\ Len(series[i].value) = 1}

\* the positions of the dated samples of a series nearest to t
NearestTo(series, t) ==
  LET dated == {i \in 1..Len(series) : series[i].date.iso}
      far(i) == IF series[i].date.t < t THEN t - series[i].date.t
                ELSE series[i].date.t - t
  IN  {i \in dated : \A j \in dated : far(i) <= far(j)}

\* C11: in a daily entry built from a daily response, a high or low the
\* response carries for that day is the entry's temperature or templow,
\* whatever the retained hourly series yields for that local day.
C11_FetchedTemperatureFirst ==
  Returned("_build_daily_forecast") =>
    \A i \in 1..Len(Result) :
      LET high == Fetched(Args.parsed, "t_max_2m_24h:C", Result[i].datetime)
          low == Fetched(Args.parsed, "t_min_2m_24h:C", Result[i].datetime)
      IN  /\ high # None => Result[i].temperature = high
          /\ low # None => Result[i].templow = low

\* the hourly equivalent of a daily field: the value of a nearest sample
HourlyNear(field, parameter, latest, midday) ==
  LET series == SamplesOf(latest, parameter)
  IN  IF NearestTo(series, midday) = {} THEN field = None
      ELSE field \in {series[i].value : i \in NearestTo(series, midday)}

\* C12: in a daily entry built from a daily response that carries no value
\* of a field, precipitation is the sum of the hourly precipitation in
\* [dayStart, dayStart + 1 day), wind speed, wind bearing, pressure and UV
\* index are the hourly value nearest dayStart + 12 h, the condition is the
\* inferred daily condition; each is none only when the hourly data has no
\* equivalent.
C12_HourlyFallback ==
  Returned("_build_daily_forecast") =>
    \A i \in 1..Len(Result) :
      LET e == Result[i]
          dt == e.datetime
          absent(p) == Fetched(Args.parsed, p, dt) = None
          rain == SamplesOf(Args.latest, "precip_1h:mm")
          wet == NumbersIn(rain, dt, dt + 1440)
      IN  /\ absent("precip_24h:mm") =>
                e.precipitation = IF wet = {} THEN None ELSE Some(SumAt(rain, wet))
          /\ absent("wind_speed_10m:ms") =>
                HourlyNear(e.wind_speed, "wind_speed_10m:ms", Args.latest, dt + 720)
          /\ absent("wind_dir_10m:d") =>
                HourlyNear(e.wind_bearing, "wind_dir_10m:d", Args.latest, dt + 720)
          /\ absent("msl_pressure:hPa") =>
                HourlyNear(e.pressure, "msl_pressure:hPa", Args.latest, dt + 720)
          /\ absent("uv:idx") =>
                HourlyNear(e.uv_index, "uv:idx", Args.latest, dt + 720)
          /\ absent("weather_symbol_24h:idx") =>
                e.condition = InferDailyCondition(Args.entries, dt)
          /\ e.precipitation = None => wet = {}
          /\ e.wind_speed = None => HourlyNear(None, "wind_speed_10m:ms", Args.latest, dt + 720)
          /\ e.wind_bearing = None => HourlyNear(None, "wind_dir_10m:d", Args.latest, dt + 720)
          /\ e.pressure = None => HourlyNear(None, "msl_pressure:hPa", Args.latest, dt + 720)
          /\ e.uv_index = None => HourlyNear(None, "uv:idx", Args.latest, dt + 720)
          /\ e.condition = None => InferDailyCondition(Args.entries, dt) = None

\* an entry was built from a response with the temperatures only: rain 1 + 2
\* of the day's hours, the 13:00 values of wind, pressure and UV, the 14:00
\* condition
C12_Witness ==
  /\ Returned("_build_daily_forecast")
  /\ DOMAIN Args.parsed = {"t_max_2m_24h:C", "t_min_2m_24h:C"}
  /\ Len(Result) = 1
  /\ Result[1].precipitation = Some(3)
  /\ Result[1].wind_speed = Some(3)
  /\ Result[1].wind_bearing = Some(270)
  /\ Result[1].pressure = Some(1013)
  /\ Result[1].uv_index = Some(5)
  /\ Result[1].condition = Some("sunny")

\* the concatenation of the sequences of a sequence
RECURSIVE Concat(_)
Concat(seqs) == IF seqs = <<>> THEN <<>> ELSE Head(seqs) \o Concat(Tail(seqs))

\* C13: the chunks of a parameter list concatenate to the list in its order,
\* every chunk has between 1 and MAX_PARAMETERS_PER_REQUEST parameters, only
\* the last chunk is shorter than that, and the empty list has no chunks.
C13_Chunks ==
  Returned("_chunk_parameters") =>
    /\ Concat(Result) = Args.parameters
    /\ \A k \in 1..Len(Result) :
         /\ Len(Result[k]) >= 1
         /\ Len(Result[k]) <= MAX_PARAMETERS_PER_REQUEST
         /\ k < Len(Result) => Len(Result[k]) = MAX_PARAMETERS_PER_REQUEST
    /\ Args.parameters = <<>> => Result = <<>>

\* a list of 21 parameters was cut into chunks of 10, 10 and 1
C13_Witness ==
  /\ Returned("_chunk_parameters")
  /\ Len(Args.parameters) = 21
  /\ Len(Result) = 3
  /\ Len(Result[3]) = 1

\* the night variant of a condition: "clear-night" for "sunny"
AtNight(condition) ==
  IF condition = Some("sunny") THEN Some("clear-night") ELSE condition

\* C14: every code c in 0..99 the table has is mapped, c + 100 is mapped to
\* the same condition, except that the codes mapped to "sunny" (0 and 1)
\* have night variants mapped to "clear-night"; a code outside 0..199 has no
\* condition.
C14_NightVariants ==
  Returned("WEATHER_SYMBOL_MAP.get") =>
    /\ Args.code \in 0..99 =>
         /\ Result # None
         /\ (Result = Some("sunny")) = (Args.code \in {0, 1})
         /\ WeatherSymbolMapGet(Args.code + 100) = AtNight(Result)
    /\ Args.code \in 100..199 =>
         /\ Result # None
         /\ Result # Some("sunny")
         /\ Result = AtNight(WeatherSymbolMapGet(Args.code - 100))
    /\ Args.code \notin 0..199 => Result = None

\* code 101, the night variant of the sunny code 1, was looked up
C14_Witness ==
  /\ Returned("WEATHER_SYMBOL_MAP.get")
  /\ Args.code = 101
  /\ Result = Some("clear-night")

\* C15: _value_at returns none when no sample of the parameter is dated
\* exactly the target, the parameter missing from the response included, and
\* the value of the sample when exactly one sample is dated the target.
C15_ValueAt ==
  Returned("_value_at") =>
    LET series == SamplesOf(Args.parsed, Args.parameter)
        hits == DatedAt(series, Args.target)
    IN  /\ hits = {} => Result = None
        /\ Cardinality(hits) = 1 => \A i \in hits : Result = series[i].value

\* the value 2 of the one sample dated the target, the last of three samples,
\* was returned
C15_Witness ==
  /\ Returned("_value_at")
  /\ Len(SamplesOf(Args.parsed, Args.parameter)) = 3
  /\ DatedAt(SamplesOf(Args.parsed, Args.parameter), Args.target) = {3}
  /\ Args.target = DayStart + HOUR
  /\ SamplesOf(Args.parsed, Args.parameter)[1].value = Some(1)
  /\ Result = Some(2)

\* C16: _sum_hourly_values returns the sum of the numbers of the samples
\* with start <= timestamp < end, leaving out null and non-numeric values,
\* and none, not zero, when no sample of the window has a number.
C16_SumOverWindow ==
  Returned("_sum_hourly_values") =>
    LET series == SamplesOf(Args.latest, Args.parameter)
        counted == NumbersIn(series, Args.start, Args.end)
    IN  Result = IF counted = {} THEN None ELSE Some(SumAt(series, counted))

\* the samples 1, 2 and "bad" of the window, the first at its start, were
\* summed to 3
C16_Witness ==
  /\ Returned("_sum_hourly_values")
  /\ SamplesOf(Args.latest, Args.parameter) =
       << Sample(Args.start, Some(1)), Sample(Args.end - 60, Some(2)),
          Sample(Args.end - 60, <<"str", "bad">>) >>
  /\ Result = Some(3)

\* the condition of a sample of weather_symbol_1h:idx, none for a null code
ConditionOf(sample) ==
  IF sample.value = None THEN None ELSE WeatherSymbolMapGet(sample.value[1])

\* the first of the positions S of a series at the least distance from t
FirstNearest(series, S, t) ==
  LET far(i) == IF series[i].date.t < t THEN t - series[i].date.t
                ELSE series[i].date.t - t
      best == {i \in S : \A j \in S : far(i) <= far(j)}
  IN  CHOOSE i \in best : \A j \in best : i <= j

\* the positions of the samples of a series dated in [start, end)
SamplesIn(series, start, end) ==
  {i \in 1..Len(series) : /\ series[i].date.iso
                          /\ start <= series[i].date.t
                          /\ series[i].date.t < end}

\* C17 as stated: _infer_daily_condition returns the condition of the hourly
\* sample in [dayStart, dayStart + 1 day) nearest dayStart + 12 h, the first
\* listed one among equidistant samples, and none when no sample is in the
\* window.
C17_NearestSample ==
  Returned("_infer_daily_condition") =>
    LET inDay == SamplesIn(Args.series, Args.day_start, Args.day_start + 1440)
    IN  Result = IF inDay = {} THEN None
                 ELSE ConditionOf(Args.series[
                        FirstNearest(Args.series, inDay, Args.day_start + 720)])

\* C17, amended: _infer_daily_condition returns the condition of the hourly
\* sample nearest dayStart + 12 h among the samples in [dayStart, dayStart +
\* 1 day) that have a condition, the first listed one among equidistant
\* samples, and none when no sample with a condition is in the window.
C17_NearestCondition ==
  Returned("_infer_daily_condition") =>
    LET inDay == {i \in SamplesIn(Args.series, Args.day_start, Args.day_start + 1440) :
                    ConditionOf(Args.series[i]) # None}
    IN  Result = IF inDay = {} THEN None
                 ELSE ConditionOf(Args.series[
                        FirstNearest(Args.series, inDay, Args.day_start + 720)])

\* of the samples 13:00 sunny, 11:00 rainy and 00:00 of the next day, the
\* first of the two nearest midday gave the condition
C17_Witness ==
  /\ Returned("_infer_daily_condition")
  /\ Args.series = << Sample(Args.day_start + 13 * 60, Some(1)),
                      Sample(Args.day_start + 11 * 60, Some(61)),
                      Sample(Args.day_start + 24 * 60, Some(61)) >>
  /\ Result = Some("sunny")

\* C18: _derive_daily_temperatures maps each local calendar day with at
\* least one numeric sample of t_2m:C to the greatest and the least of the
\* numbers of that day, and has no key for any other day.
C18_DailyHighLow ==
  Returned("_derive_daily_temperatures") =>
    LET series == SamplesOf(Args.latest, "t_2m:C")
        numbers == {i \in 1..Len(series) :
                      series[i].date.iso /\ Len(series[i].value) = 1}
        day(i) == (series[i].date.t + TimeZoneOffset) \div 1440
        of(d) == {series[i].value[1] : i \in {j \in numbers : day(j) = d}}
    IN  /\ DOMAIN Result = {day(i) : i \in numbers}
        /\ \A d \in DOMAIN Result :
             /\ Result[d][1] \in of(d)
             /\ Result[d][2] \in of(d)
             /\ \A v \in of(d) : Result[d][2] <= v /\ v <= Result[d][1]

\* samples 15 at 00:00 and 18 at 01:00 local time of a day, and a text at
\* 23:00 of the day before, gave (18, 15) for that day and nothing else
C18_Witness ==
  /\ Returned("_derive_daily_temperatures")
  /\ SamplesOf(Args.latest, "t_2m:C") =
       << Sample(DayStart + 1440, Some(15)), Sample(DayStart + 1440 + 60, Some(18)),
          Sample(DayStart + 1440 - 60, <<"str", "n/a">>) >>
  /\ DOMAIN Result = {(DayStart + 1440 + TimeZoneOffset) \div 1440}
  /\ \A d \in DOMAIN Result : Result[d] = <<18, 15>>

\* C19: _parse_response yields a series for each item with a non-empty
\* parameter name and a non-empty coordinate list, the dates of the item's
\* first coordinate group; an item lacking either yields nothing; a document
\* without a data list yields the empty mapping.
C19_Parse ==
  Returned("_parse_response") =>
    LET items == IF Args.document = None THEN <<>> ELSE Args.document[1]
        kept == {i \in 1..Len(items) :
                   items[i].parameter # "" /\ Len(items[i].coordinates) > 0}
        named(n) == {i \in kept : items[i].parameter = n}
    IN  /\ DOMAIN Result = {items[i].parameter : i \in kept}
        /\ \A n \in DOMAIN Result :
             Result[n] \in {items[i].coordinates[1].dates : i \in named(n)}
        /\ Args.document = None => DOMAIN Result = {}

\* of an item without a name and an item of t_2m:C with two coordinate
\* groups, the first group of the second item is the only series
C19_Witness ==
  /\ Returned("_parse_response")
  /\ Args.document # None
  /\ Len(Args.document[1]) = 2
  /\ Args.document[1][1].parameter = ""
  /\ Len(Args.document[1][1].coordinates) = 1
  /\ Args.document[1][2].parameter = "t_2m:C"
  /\ Len(Args.document[1][2].coordinates) = 2
  /\ DOMAIN Result = {"t_2m:C"}
  /\ Result["t_2m:C"] = Args.document[1][2].coordinates[1].dates
  /\ Result["t_2m:C"] # Args.document[1][2].coordinates[2].dates

\* C24: when the validation request of the first setup screen or of the
\* first options screen is answered with 401 the error is invalid_auth, when
\* it is answered with another error status, fails to connect or times out
\* the error is cannot_connect; in each case the same form is shown again,
\* no entry is created and the config entry is not updated.
C24_ValidationErrors ==
  LET failed == Args.user_input # None
                /\ (Args.response.kind = "status" => Args.response.status >= 400)
      error == IF Args.response.kind = "status" /\ Args.response.status = 401
               THEN "invalid_auth" ELSE "cannot_connect"
  IN  /\ (Returned("async_step_user") /\ failed)
           => /\ Result.result.type = "form"
              /\ Result.result.step_id = "user"
              /\ Result.result.errors = <<error>>
              /\ Result.created = <<>>
      /\ (Returned("async_step_init") /\ failed)
           => /\ Result.result.type = "form"
              /\ Result.result.step_id = "init"
              /\ Result.result.errors = <<error>>
              /\ Result.config_entry = Args.config_entry

\* the options screen was submitted with a new password and got a 401: the
\* form is shown with invalid_auth and the entry keeps its password
C24_Witness ==
  /\ Returned("async_step_init")
  /\ Args.user_input # None
  /\ Args.user_input[1].password # Args.config_entry.password
  /\ Args.response = [kind |-> "status", status |-> 401]
  /\ Result.result.errors = <<"invalid_auth">>
  /\ Result.result.type = "form"
  /\ Result.config_entry.password = Args.config_entry.password

\* C26: re-deriving the cached daily entries from a new hourly response
\* keeps the condition of an entry that came from the 24h weather symbol of
\* the daily response; such an entry does not lose its condition when its
\* day has no hourly condition sample.
C26_FetchedConditionKept ==
  Returned("_update_cached_daily_conditions") =>
    \A i \in 1..Len(Result) :
      LET symbol == Fetched(Args.parsed, "weather_symbol_24h:idx", Result[i].datetime)
          fetched == IF Len(symbol) = 1 THEN WeatherSymbolMapGet(symbol[1]) ELSE <<>>
      IN  fetched # <<>> => Result[i].condition = fetched

\* the condition of the sample of weather_symbol_1h:idx dated t in a parsed
\* hourly response: none when the sample is missing or its code is null, not
\* a number or not in the table
C27_ConditionAt(parsed, t) ==
  LET code == Fetched(parsed, "weather_symbol_1h:idx", t)
  IN  IF Len(code) = 1 THEN WeatherSymbolMapGet(code[1]) ELSE <<>>

\* C27: the condition of the current snapshot and of each hourly forecast
\* entry a cycle builds is the mapped condition of the hourly weather symbol
\* sample at exactly that timestamp, and none when that sample is missing,
\* null or has a code the table lacks.
C27_ConditionOrNone ==
  [][ (HourlyResponse /\ pc' # "hourly") =>
        LET current == IF pc' = "idle" THEN data'[1].current ELSE cycle'[1].current[1]
            hourly == IF pc' = "idle" THEN data'[1].hourly ELSE cycle'[1].hourly
        IN  /\ current.condition = C27_ConditionAt(latest_hourly_parsed', request[1].start)
            /\ \A i \in 1..Len(hourly) :
                 hourly[i].condition =
                   C27_ConditionAt(latest_hourly_parsed', hourly[i].datetime) ]_vars

\* the first of the positions of the dated samples of a series nearest to t
C28_First(series, t) ==
  CHOOSE i \in NearestTo(series, t) : \A j \in NearestTo(series, t) : i <= j

\* C28 as stated: _hourly_value_near returns the value of the sample at the
\* least distance from the target, the first listed one among equidistant
\* samples, however far it is, and returns none only when the retained series
\* has no sample of the parameter with a parseable timestamp.
C28_NearestValue ==
  Returned("_hourly_value_near") =>
    LET series == SamplesOf(Args.latest, Args.parameter)
    IN  /\ NearestTo(series, Args.target) # {}
             => Result = series[C28_First(series, Args.target)].value
        /\ (Result = <<>>) = (NearestTo(series, Args.target) = {})

\* C28, amended: _hourly_value_near returns the value of the sample at the
\* least distance from the target, the first listed one among equidistant
\* samples, however far it is; it returns none when the retained series has
\* no sample of the parameter with a parseable timestamp, and otherwise only
\* when the value of that nearest sample is null.
C28_NearestValueOrNull ==
  Returned("_hourly_value_near") =>
    LET series == SamplesOf(Args.latest, Args.parameter)
    IN  Result = IF NearestTo(series, Args.target) = {} THEN <<>>
                 ELSE series[C28_First(series, Args.target)].value

\* of a sample 2 hours after the target with the value 2, a sample 2 hours
\* before it with the value 1 and an undated sample, the first listed gave
\* the value
C28_Witness ==
  /\ Returned("_hourly_value_near")
  /\ SamplesOf(Args.latest, Args.parameter) =
       << Sample(Args.target + 120, <<2>>), Sample(Args.target - 120, <<1>>),
          [date |-> BadDate, value |-> <<1>>] >>
  /\ Result = <<2>>

\* C33: a configuration-change notification that finds no coordinator for
\* the entry changes nothing and requests no refresh; one that finds a
\* coordinator requests a refresh exactly when the update interval differs
\* from the entry's or update_credentials reported a change, and when neither
\* is the case the coordinator, an active cool-down included, is as before
C33_RefreshOnChange ==
  Returned("async_reload_entry") =>
    IF Args.registered = None
    THEN Result.coordinator = None /\ ~Result.refresh
    ELSE LET before == Val(Args.registered)
             interval_changed == before.update_interval # Args.entry.update_interval
         IN  /\ Result.refresh <=> (interval_changed \/ Result.credentials_changed)
             /\ Result.credentials_changed <=>
                   (before.username # Args.entry.username
                      \/ before.password # Args.entry.password)
             /\ (~interval_changed /\ ~Result.credentials_changed)
                  => /\ ~Result.refresh
                     /\ Result.coordinator = Args.registered

\* a notification with the same interval and credentials has returned for a
\* coordinator that is cooling down: no refresh, the cool-down still there
C33_Witness ==
  /\ Returned("async_reload_entry")
  /\ Args.registered # None
  /\ Val(Args.registered).rate_limit_reset # None
  /\ Val(Args.registered).update_interval = Args.entry.update_interval
  /\ ~Result.credentials_changed
  /\ ~Result.refresh
  /\ Val(Result.coordinator).rate_limit_reset = Val(Args.registered).rate_limit_reset

\* the parameters of a selection that the catalogue has
C34_Valid(selected) ==
  {i \in 1..Len(selected) : selected[i] \in DOMAIN BASIC_OPTIONAL_PARAMETER_SCOPES}

\* a selection of catalogue parameters only, no more than the limit
C34_Allowed(selection) ==
  /\ \A i \in 1..Len(selection) : selection[i] \in DOMAIN BASIC_OPTIONAL_PARAMETER_SCOPES
  /\ Len(selection) <= BASIC_OPTIONAL_PARAMETER_LIMIT

\* C34: whatever step of the optional-parameter screen of the setup or the
\* options flow has returned, an entry it created or updated holds a
\* selection of catalogue parameters only and no more than the limit of
\* them; a submission with more catalogue parameters than the limit shows the
\* form again with the error basic_too_many_parameters and creates or changes
\* no entry; a step that finds nothing pending aborts the flow
C34_SelectionWithinLimit ==
  /\ Returned("config.async_step_basic_parameters") =>
       /\ Result.created # None =>
            C34_Allowed(Val(Result.created).basic_optional_parameters)
       /\ Result.result.type = "create_entry" <=> Result.created # None
       /\ Args.pending_user_input = None =>
            Result.result.type = "abort" /\ Result.created = None
       /\ ( /\ Args.pending_user_input # None
            /\ Args.user_input # None
            /\ Cardinality(C34_Valid(Val(Args.user_input))) > BASIC_OPTIONAL_PARAMETER_LIMIT )
            => /\ Result.result.type = "form"
               /\ Result.result.errors = Some("basic_too_many_parameters")
               /\ Result.created = None
  /\ Returned("options.async_step_basic_parameters") =>
       /\ (Result.config_entry # Args.config_entry \/ Result.result.type = "create_entry")
            => C34_Allowed(Result.config_entry.basic_optional_parameters)
       /\ (Args.pending_new_data = None \/ Args.pending_options = None) =>
            Result.result.type = "abort" /\ Result.config_entry = Args.config_entry
       /\ ( /\ Args.pending_new_data # None
            /\ Args.pending_options # None
            /\ Args.user_input # None
            /\ Cardinality(C34_Valid(Val(Args.user_input))) > BASIC_OPTIONAL_PARAMETER_LIMIT )
            => /\ Result.result.type = "form"
               /\ Result.result.errors = Some("basic_too_many_parameters")
               /\ Result.config_entry = Args.config_entry

\* the options flow has updated an entry from a submission of five catalogue
\* parameters and one the catalogue lacks
C34_Witness ==
  /\ Returned("options.async_step_basic_parameters")
  /\ Args.user_input # None
  /\ Len(Val(Args.user_input)) = 6
  /\ Cardinality(C34_Valid(Val(Args.user_input))) = 5
  /\ Result.result.type = "create_entry"
  /\ Result.config_entry # Args.config_entry
  /\ Len(Result.config_entry.basic_optional_parameters) = 5

====
